---------------------------- MODULE Spec2Model ----------------------------
(***************************************************************************)
(* A model of the CDT log extraction engine of cdt_log_parser_optimized.py *)
(* (class CDTLogParser).  Text is modelled as TLA+ strings holding the     *)
(* literals of the source; indices are 0-based as in Python, -1 is "not    *)
(* found", and an optional value (None or a string) is a tuple: <<>> is    *)
(* None and <<c>> is the string c.                                         *)
(***************************************************************************)
EXTENDS Integers, Sequences, FiniteSets, TLC

VARIABLES
    unit_content,   \* process_test_unit: the text of the unit being processed
    unit_results,   \* process_test_unit: [called, none, duts] - what it returned
    block_content,  \* clean_cdt_log: the raw block given to the first call
    cleaned,        \* clean_cdt_log: [called, value] - what the first call returned
    recleaned,      \* clean_cdt_log: [called, value] - what the call on that result returned
    file_content,   \* the text of the file being segmented
    unit_pairs,     \* process_file: [done, units] - the (start, end) pairs it found
    block_size,     \* process_large_file: the window size of the chunked scan
    block_index,    \* process_large_file: the next window find_markers reads
    start_positions, \* process_large_file: start-marker positions collected so far
    end_positions,  \* process_large_file: end positions collected so far
    unit_positions, \* process_large_file: [done, units] - the (start, end) pairs it found
    file_in,        \* process_file: the file it is given and what its environment does
    pf,             \* process_file: its position, its locals and what it returned
    dir_in,         \* process_directory: the files of the directory and the pool size
    pd,             \* process_directory: its position, its locals and what it returned
    mm,             \* process_large_file: the memory map shared by the unit workers, [content, pos]
    pool,           \* process_large_file: the unit positions and the pool that processes them
    nest_in,        \* process_directory with large files: the files and the core count
    nest,           \* process_directory with large files: the file workers and their unit pools
    log,            \* the file whose artifacts are written
    wr,             \* the locals of process_file that decide its artifacts
    out_in,         \* process_directory writing artifacts: the files, max_workers, the core count
    ow,             \* process_directory writing artifacts: the output directory and the file workers
    prog_in,        \* process_large_file reporting progress: the file and what its environment does
    pg,             \* process_large_file reporting progress: its position, the percents, its return
    mm_bytes,       \* the chunked scan over bytes: [content, block_size]
    fm              \* the chunked scan over bytes: the window, the positions, the units read

unitVars == <<unit_content, unit_results>>

cleanVars == <<block_content, cleaned, recleaned>>

segVars ==
    <<file_content, unit_pairs, block_size, block_index, start_positions, end_positions,
      unit_positions>>

fileVars == <<file_in, pf>>

dirVars == <<dir_in, pd>>

mmapVars == <<mm, pool>>

nestVars == <<nest_in, nest>>

writeVars == <<log, wr>>

outVars == <<out_in, ow>>

progVars == <<prog_in, pg>>

bytesVars == <<mm_bytes, fm>>

vars ==
    <<unit_content, unit_results, block_content, cleaned, recleaned, file_content,
      unit_pairs,
      block_size, block_index, start_positions, end_positions, unit_positions,
      file_in, pf, dir_in, pd, mm, pool, nest_in, nest, log, wr, out_in, ow, prog_in, pg,
      mm_bytes, fm>>

\* the variables an action of one component leaves alone
notUnitVars ==
    <<cleanVars, segVars, fileVars, dirVars, mmapVars, nestVars,
      writeVars, outVars, progVars, bytesVars>>

notCleanVars ==
    <<unitVars, segVars, fileVars, dirVars, mmapVars, nestVars,
      writeVars, outVars, progVars, bytesVars>>

notSegVars ==
    <<unitVars, cleanVars, fileVars, dirVars, mmapVars, nestVars,
      writeVars, outVars, progVars, bytesVars>>

notFileVars ==
    <<unitVars, cleanVars, segVars, dirVars, mmapVars, nestVars,
      writeVars, outVars, progVars, bytesVars>>

notDirVars ==
    <<unitVars, cleanVars, segVars, fileVars, mmapVars, nestVars,
      writeVars, outVars, progVars, bytesVars>>

notMmapVars ==
    <<unitVars, cleanVars, segVars, fileVars, dirVars, nestVars,
      writeVars, outVars, progVars, bytesVars>>

notNestVars ==
    <<unitVars, cleanVars, segVars, fileVars, dirVars, mmapVars,
      writeVars, outVars, progVars, bytesVars>>

notWriteVars ==
    <<unitVars, cleanVars, segVars, fileVars, dirVars, mmapVars,
      nestVars, outVars, progVars, bytesVars>>

notOutVars ==
    <<unitVars, cleanVars, segVars, fileVars, dirVars, mmapVars,
      nestVars, writeVars, progVars, bytesVars>>

notProgVars ==
    <<unitVars, cleanVars, segVars, fileVars, dirVars, mmapVars,
      nestVars, writeVars, outVars, bytesVars>>

notBytesVars ==
    <<unitVars, cleanVars, segVars, fileVars, dirVars, mmapVars,
      nestVars, writeVars, outVars, progVars>>

---------------------------------------------------------------------------
(* Python string primitives                                                *)

Min2(a, b) == IF a <= b THEN a ELSE b

Max2(a, b) == IF a >= b THEN a ELSE b

MinOf(S) == CHOOSE x \in S : \A y \in S : x <= y

\* s[a:b] for 0 <= a, 0 <= b
Slice(s, a, b) ==
    LET hi == Min2(b, Len(s))
    IN  IF a < hi THEN SubSeq(s, a + 1, hi) ELSE ""

\* s[a:]
SliceFrom(s, a) == Slice(s, a, Len(s))

\* s.find(p, start)
Find(s, p, start) ==
    LET hits == {i \in start..(Len(s) - Len(p)) : SubSeq(s, i + 1, i + Len(p)) = p}
    IN  IF hits = {} THEN -1 ELSE MinOf(hits)

\* p in s
Contains(s, p) == \E i \in 0..(Len(s) - Len(p)) : SubSeq(s, i + 1, i + Len(p)) = p

\* s.startswith(p)
StartsWith(s, p) == Len(s) >= Len(p) /\ SubSeq(s, 1, Len(p)) = p

\* s.endswith(p)
EndsWith(s, p) == Len(s) >= Len(p) /\ SubSeq(s, Len(s) - Len(p) + 1, Len(s)) = p

Whitespace == {" ", "\t", "\n", "\r"}

IsSpaceAt(s, i) == SubSeq(s, i, i) \in Whitespace

\* s.strip()
Strip(s) ==
    LET solid == {i \in 1..Len(s) : ~IsSpaceAt(s, i)}
    IN  IF solid = {} THEN ""
        ELSE SubSeq(s, MinOf(solid), CHOOSE i \in solid : \A j \in solid : j <= i)

\* s.rstrip()
RStrip(s) ==
    LET solid == {i \in 1..Len(s) : ~IsSpaceAt(s, i)}
    IN  IF solid = {} THEN ""
        ELSE SubSeq(s, 1, CHOOSE i \in solid : \A j \in solid : j <= i)

\* s.split('\n'): the pieces between the newlines, in order
Split(s) ==
    LET nl  == {i \in 1..Len(s) : SubSeq(s, i, i) = "\n"}
        n   == Cardinality(nl)
        \* position of the k-th newline; 0 before the first, Len(s)+1 after the last
        at(k) == IF k = 0 THEN 0
                 ELSE IF k = n + 1 THEN Len(s) + 1
                 ELSE CHOOSE i \in nl : Cardinality({j \in nl : j < i}) = k - 1
    IN  [k \in 1..(n + 1) |-> SubSeq(s, at(k - 1) + 1, at(k) - 1)]

\* s.splitlines(), for text whose only line break is '\n'
Splitlines(s) ==
    LET p == Split(s)
    IN  IF p[Len(p)] = "" THEN SubSeq(p, 1, Len(p) - 1) ELSE p

\* '\n'.join(lines)
RECURSIVE Join(_)
Join(lines) ==
    IF Len(lines) = 0 THEN ""
    ELSE IF Len(lines) = 1 THEN lines[1]
    ELSE lines[1] \o "\n" \o Join(Tail(lines))

\* s.split()[0] for a line that does not start with whitespace and is not empty
FirstWord(s) ==
    LET gaps == {i \in 1..Len(s) : IsSpaceAt(s, i)}
    IN  IF gaps = {} THEN s ELSE SubSeq(s, 1, MinOf(gaps) - 1)

DigitChars == <<"0", "1", "2", "3", "4", "5", "6", "7", "8", "9">>

IsDigitAt(s, i) == \E d \in 1..10 : DigitChars[d] = SubSeq(s, i, i)

DigitVal(c) == (CHOOSE d \in 1..10 : DigitChars[d] = c) - 1

\* whether int(s) succeeds: optional surrounding whitespace, optional sign, digits
IsInt(s) ==
    LET t == Strip(s)
        u == IF StartsWith(t, "-") \/ StartsWith(t, "+") THEN SliceFrom(t, 1) ELSE t
    IN  Len(u) > 0 /\ \A i \in 1..Len(u) : IsDigitAt(u, i)

RECURSIVE DigitsValue(_)
DigitsValue(u) ==
    IF Len(u) = 0 THEN 0
    ELSE 10 * DigitsValue(SubSeq(u, 1, Len(u) - 1)) + DigitVal(SubSeq(u, Len(u), Len(u)))

\* int(s), where IsInt(s)
IntOf(s) ==
    LET t == Strip(s)
    IN  IF StartsWith(t, "-") THEN 0 - DigitsValue(SliceFrom(t, 1))
        ELSE IF StartsWith(t, "+") THEN DigitsValue(SliceFrom(t, 1))
        ELSE DigitsValue(t)

\* str(n) for n >= 0
RECURSIVE NatStr(_)
NatStr(n) == IF n < 10 THEN DigitChars[n + 1] ELSE NatStr(n \div 10) \o DigitChars[(n % 10) + 1]

\* f"{n:02d}"
Fmt02d(n) ==
    IF n < 0 THEN "-" \o NatStr(0 - n)
    ELSE IF n < 10 THEN "0" \o NatStr(n)
    ELSE NatStr(n)

None == <<>>

Some(c) == <<c>>

---------------------------------------------------------------------------
(* clean_cdt_log                                                           *)

SKIP_PATTERNS ==
    {"EMMC Transport:", "[Property]", "bytearray", "Transport:",
     "CDT Data <IN>:", "Dut:", "FORMAT STATUS:"}

KEEP_PATTERNS == {"X:", "Y:", "LOT:", "TestNum_", "Temp:", "#TT"}

block_end_marker == "[Property]--->Type:[7], Size:[512] Dataproperty:bytearray:512"

status_line_marker == " -- soft bin 0x"

AlnumChars ==
    {"0", "1", "2", "3", "4", "5", "6", "7", "8", "9",
     "a", "b", "c", "d", "e", "f", "g", "h", "i", "j", "k", "l", "m",
     "n", "o", "p", "q", "r", "s", "t", "u", "v", "w", "x", "y", "z",
     "A", "B", "C", "D", "E", "F", "G", "H", "I", "J", "K", "L", "M",
     "N", "O", "P", "Q", "R", "S", "T", "U", "V", "W", "X", "Y", "Z"}

\* any(c.isalnum() for c in line)
HasAlnum(line) == \E i \in 1..Len(line) : SubSeq(line, i, i) \in AlnumChars

\* 'nul' in line.lower()
ContainsNul(line) ==
    \E i \in 1..(Len(line) - 2) :
        /\ SubSeq(line, i, i) \in {"n", "N"}
        /\ SubSeq(line, i + 1, i + 1) \in {"u", "U"}
        /\ SubSeq(line, i + 2, i + 2) \in {"l", "L"}

\* the span removal at the head of clean_cdt_log
RemoveEmmc(content) ==
    LET emmc_start == Find(content, "EMMC Transport: SingleBlock Read", 0)
        property_end == IF emmc_start = -1 THEN -1
                        ELSE Find(content, block_end_marker, emmc_start)
    IN  IF emmc_start # -1 /\ property_end # -1
        THEN Slice(content, 0, emmc_start) \o SliceFrom(content, property_end + 70)
        ELSE content

\* the condition of the list comprehension that builds filtered_lines
PreFilter(line) ==
    /\ Strip(line) # ""
    /\ Strip(line) # "[CDT log] :~~"
    /\ ~ContainsNul(line)
    /\ ~Contains(line, "[STlog]")
    /\ ~(StartsWith(line, "DUT[") /\ Contains(line, "CDT log info:"))
    /\ ~EndsWith(line, block_end_marker)

\* the rewrite of a DUT status line to a 2-digit dut id
FormatStatusLine(line) ==
    IF Contains(line, status_line_marker) /\ StartsWith(line, "DUT")
    THEN LET dut_part == FirstWord(line)
             soft_bin_pos == Find(line, status_line_marker, 0)
         IN  IF Len(dut_part) > 3 /\ IsInt(SliceFrom(dut_part, 3))
                /\ soft_bin_pos # -1
                /\ IntOf(SliceFrom(dut_part, 3)) >= 1
                /\ IntOf(SliceFrom(dut_part, 3)) <= 24
             THEN "DUT" \o Fmt02d(IntOf(SliceFrom(dut_part, 3))) \o SliceFrom(line, soft_bin_pos)
             ELSE line
    ELSE line

\* the body of the loop over filtered_lines: whether the line is appended
KeepLine(line) ==
    /\ ~\E pattern \in SKIP_PATTERNS : Contains(line, pattern)
    /\ (HasAlnum(line) \/ \E pattern \in KEEP_PATTERNS : Contains(line, pattern))

clean_cdt_log(content) ==
    LET lines == Split(RemoveEmmc(content))
        pre == SelectSeq(lines, PreFilter)
        filtered_lines == [i \in 1..Len(pre) |-> Strip(pre[i])]
        kept == SelectSeq(filtered_lines, KeepLine)
        cleaned_lines == [i \in 1..Len(kept) |-> FormatStatusLine(kept[i])]
    IN  IF Len(cleaned_lines) > 0 THEN Some(Join(cleaned_lines)) ELSE None

---------------------------------------------------------------------------
(* process_test_unit                                                       *)

\* d with key k bound to v (a dict assignment d[k] = v)
Put(d, k, v) == (k :> v) @@ d

\* dut_dict = {f"{i:02d}": None for i in range(1, 25)}
InitialDutDict == [k \in {Fmt02d(i) : i \in 1..24} |-> None]

\* the backwards search for the line holding 'Execution time:'; -1 if none
ExecutionTimeIndex(unit_lines) ==
    LET n == Len(unit_lines)
        found == {i \in (Max2(0, n - 50) + 1)..(n - 1) :
                     Contains(unit_lines[i + 1], "Execution time:")}
    IN  IF found = {} THEN -1 ELSE CHOOSE i \in found : \A j \in found : j <= i

\* the lines in which status lines are looked for
StatusSectionLines(unit_lines) ==
    LET execution_time_index == ExecutionTimeIndex(unit_lines)
        n == Len(unit_lines)
    IN  IF execution_time_index > 0
        THEN SubSeq(unit_lines, Max2(0, execution_time_index - 30) + 1, execution_time_index)
        ELSE IF n >= 30 THEN SubSeq(unit_lines, n - 29, n)
        ELSE unit_lines

\* one iteration of the loop over the status section; st = [lines, dict] holds
\* dut_status_lines and dut_dict
StatusStep(st, line) ==
    IF Contains(line, status_line_marker) /\ StartsWith(line, "DUT")
    THEN LET dut_part == FirstWord(line)
             dut_num_str == SliceFrom(dut_part, 3)
         IN  IF Len(dut_part) > 3 /\ IsInt(dut_num_str)
                /\ IntOf(dut_num_str) >= 1 /\ IntOf(dut_num_str) <= 24
             THEN LET formatted_dut_id == Fmt02d(IntOf(dut_num_str))
                      status_line == "DUT" \o formatted_dut_id
                                     \o SliceFrom(line, Find(line, status_line_marker, 0))
                  IN  [lines |-> Put(st.lines, formatted_dut_id, status_line),
                       dict  |-> IF Contains(line, "fail_functional")
                                 THEN st.dict
                                 ELSE Put(st.dict, formatted_dut_id, Some(status_line))]
             ELSE st
    ELSE st

RECURSIVE ScanStatus(_, _)
ScanStatus(st, lines) ==
    IF Len(lines) = 0 THEN st ELSE ScanStatus(StatusStep(st, Head(lines)), Tail(lines))

\* one raw block: dut_blocks with the cleaned block appended under its dut id
BlockStep(dut_blocks, block) ==
    LET dut_start == Find(block, "[", 0) + 1
        dut_end == Find(block, "]", dut_start)
    IN  IF dut_start > 0 /\ dut_end > dut_start /\ IsInt(Slice(block, dut_start, dut_end))
        THEN LET formatted_dut_id == Fmt02d(IntOf(Slice(block, dut_start, dut_end)))
                 cleaned_block == clean_cdt_log(block)
             IN  IF cleaned_block # None
                 THEN IF formatted_dut_id \in DOMAIN dut_blocks
                      THEN Put(dut_blocks, formatted_dut_id,
                               Append(dut_blocks[formatted_dut_id], cleaned_block[1]))
                      ELSE Put(dut_blocks, formatted_dut_id, <<cleaned_block[1]>>)
                 ELSE dut_blocks
        ELSE dut_blocks

\* the while loop over the raw blocks of the CDT section
RECURSIVE ScanBlocks(_, _, _)
ScanBlocks(cdt_content, pos, dut_blocks) ==
    LET start_pos == Find(cdt_content, "DUT[", pos)
        end_pos == IF start_pos = -1 THEN -1 ELSE Find(cdt_content, block_end_marker, start_pos)
    IN  IF start_pos = -1 \/ end_pos = -1 THEN dut_blocks
        ELSE ScanBlocks(cdt_content, end_pos + Len(block_end_marker),
                        BlockStep(dut_blocks,
                                  Slice(cdt_content, start_pos, end_pos + Len(block_end_marker))))

\* a merge that puts the status line before the blocks instead of after them
MergedContentStatusFirst(dut_id, blocks, dut_status_lines) ==
    LET header == "DUT[" \o dut_id \o "] CDT log info:"
    IN  IF dut_id \in DOMAIN dut_status_lines
        THEN IF Contains(dut_status_lines[dut_id], "fail_functional")
             THEN None
             ELSE Some(Join(<<header, dut_status_lines[dut_id]>> \o blocks))
        ELSE Some(Join(<<header>> \o blocks))

\* the content stored for one dut id that has cleaned blocks
MergedContent(dut_id, blocks, dut_status_lines) ==
    LET header == "DUT[" \o dut_id \o "] CDT log info:"
        combined_content == Join(<<header>> \o blocks)
    IN  IF dut_id \in DOMAIN dut_status_lines
        THEN IF Contains(dut_status_lines[dut_id], "fail_functional")
             THEN None
             ELSE Some(RStrip(combined_content) \o "\n" \o dut_status_lines[dut_id])
        ELSE Some(combined_content)

\* dut_dict after the loop that merges the blocks of every dut id into it
MergeBlocks(dut_dict, dut_blocks, dut_status_lines) ==
    [k \in (DOMAIN dut_dict) \cup (DOMAIN dut_blocks) |->
        IF k \in DOMAIN dut_blocks
        THEN MergedContent(k, dut_blocks[k], dut_status_lines)
        ELSE dut_dict[k]]

\* the dut id -> content mapping at the end of process_test_unit
FinalDutDict(content) ==
    LET st == ScanStatus([lines |-> <<>>, dict |-> InitialDutDict],
                         StatusSectionLines(Splitlines(content)))
        cdt_start == Find(content, "TestBlock = tb_MacawCdtMtstTest :", 0)
        cdt_end_found == Find(content, "TestItem:tb_MacawCdtMtstTest Test Time:", cdt_start)
        cdt_end == IF cdt_end_found = -1 THEN Len(content) ELSE cdt_end_found
    IN  IF cdt_start # -1
        THEN MergeBlocks(st.dict, ScanBlocks(Slice(content, cdt_start, cdt_end), 0, <<>>), st.lines)
        ELSE st.dict

\* what process_test_unit returns: None, or {unit_id: dut_dict}
process_test_unit(content) ==
    LET dut_dict == FinalDutDict(content)
        valid_duts == Cardinality({k \in DOMAIN dut_dict : dut_dict[k] # None})
    IN  IF valid_duts = 0
        THEN [none |-> TRUE, duts |-> <<>>]
        ELSE [none |-> FALSE, duts |-> dut_dict]

---------------------------------------------------------------------------
(* Units given to process_test_unit: a start-marker line, optionally the   *)
(* CDT section (its start literal, raw blocks, its end literal), status    *)
(* lines, optionally the end-marker line.                                  *)

MaxBlocks == 2

MaxStatusLines == 2

SeqsUpTo(S, n) == UNION {[1..k -> S] : k \in 0..n}

RECURSIVE Concat(_)
Concat(parts) == IF Len(parts) = 0 THEN "" ELSE Head(parts) \o Concat(Tail(parts))

RECURSIVE Repeat(_, _)
Repeat(s, n) == IF n = 0 THEN "" ELSE s \o Repeat(s, n - 1)

RawDutIds == {"1", "25", "0"}

RawBlock(raw_dut_id) ==
    "DUT[" \o raw_dut_id \o "] CDT log info:\n[CDT log] :~~\nX:1 Y:2\n"
    \o block_end_marker \o "\n"

StatusLineTexts ==
    {"DUT1 -- soft bin 0x0\n",
     "DUT01 -- soft bin 0xffffffff -- hard bin 7 -- fail_functional\n",
     "DUT25 -- soft bin 0x0\n"}

UnitText(hasSection, blocks, hasItem, statuses, hasEnd) ==
    "Start_of_Test -----\n"
    \o (IF hasSection THEN "TestBlock = tb_MacawCdtMtstTest :\n" ELSE "")
    \o Concat([i \in 1..Len(blocks) |-> RawBlock(blocks[i])])
    \o (IF hasItem THEN "TestItem:tb_MacawCdtMtstTest Test Time: 1.5 s\n" ELSE "")
    \o Concat(statuses)
    \o (IF hasEnd THEN "Execution time: 12.5 s" ELSE "")

UnitInputs ==
    {UnitText(hasSection, blocks, hasSection, statuses, hasEnd) :
        hasSection \in BOOLEAN, blocks \in SeqsUpTo(RawDutIds, MaxBlocks),
        statuses \in SeqsUpTo(StatusLineTexts, MaxStatusLines), hasEnd \in BOOLEAN}

\* units of many lines, without CDT section, for the window in which status
\* lines are looked for: a status line 32 lines before the 'Execution time:'
\* line; an 'Execution time:' line with a status line before it and 50 lines
\* and a status line after it; the same with 10 lines after it; 35 lines
\* without 'Execution time:' and a status line at each end
WindowUnits ==
    {"Start_of_Test -----\nDUT1 -- soft bin 0x0\n" \o Repeat("fill\n", 31)
        \o "Execution time: 1",
     "Start_of_Test -----\nDUT1 -- soft bin 0x0\nExecution time: 1\n"
        \o Repeat("fill\n", 50) \o "DUT2 -- soft bin 0x0\n",
     "Start_of_Test -----\nDUT1 -- soft bin 0x0\nExecution time: 1\n"
        \o Repeat("fill\n", 10) \o "DUT2 -- soft bin 0x0\n",
     "Start_of_Test -----\nDUT1 -- soft bin 0x0\n" \o Repeat("fill\n", 32)
        \o "DUT2 -- soft bin 0x0\n"}

NotCalled == [called |-> FALSE, none |-> TRUE, duts |-> <<>>]

\* the variables of process_test_unit when no unit is processed
IdleUnit ==
    /\ unit_content = ""
    /\ unit_results = [called |-> TRUE, none |-> TRUE, duts |-> <<>>]

\* the variables of clean_cdt_log when no block is cleaned
IdleClean ==
    /\ block_content = ""
    /\ cleaned = [called |-> TRUE, value |-> None]
    /\ recleaned = [called |-> TRUE, value |-> None]

\* the variables of the two segmenters when no file is segmented
IdleSeg ==
    /\ file_content = ""
    /\ unit_pairs = [done |-> TRUE, units |-> <<>>]
    /\ block_size = 0
    /\ block_index = 0
    /\ start_positions = <<>>
    /\ end_positions = <<>>
    /\ unit_positions = [done |-> TRUE, units |-> <<>>]

\* a file record: what process_file can observe of its file and of its
\* environment.  faults is the set of stages that raise when they run, units is
\* what process_test_unit does on each unit the segmenter finds: it returns a
\* result, returns None, or raises.
NoFile ==
    [exists |-> FALSE, name |-> "", size |-> 0, output_dir |-> FALSE, cpu_count |-> 0,
     faults |-> {}, units |-> <<>>]

\* the locals of process_file before its first statement
PfStart ==
    [pc |-> "validate", i |-> 0, batch |-> 0, results |-> 0, finished |-> {},
     futures |-> <<>>, writes |-> 0, write_log |-> <<>>, raised_in |-> {},
     recovered |-> {}, ret |-> 0, propagated |-> FALSE]

\* the locals of process_directory before its first statement
PdStart ==
    [pc |-> "list", txt_files |-> <<>>, futures |-> <<>>, i |-> 0, total_results |-> 0,
     processed_files |-> 0, ret |-> 0]

\* the variables of process_file when no file is processed
IdleFile ==
    /\ file_in = NoFile
    /\ pf = [PfStart EXCEPT !.pc = "idle"]

\* the variables of process_directory when no directory is processed
IdleDir ==
    /\ dir_in = [files |-> <<>>, max_workers |-> 0, cpu_count |-> 0]
    /\ pd = [PdStart EXCEPT !.pc = "idle"]

\* the variables of the unit pool of process_large_file when no pool runs
IdleMmap ==
    /\ mm = [content |-> "", pos |-> 0]
    /\ pool = [units |-> <<>>, cpu_count |-> 0, pc |-> "idle", batch |-> 0, i |-> 0,
               futures |-> <<>>, unit_texts |-> <<>>]

\* the variables of the nested pools when no directory is processed
IdleNest ==
    /\ nest_in = [files |-> <<>>, max_workers |-> 0, cpu_count |-> 0]
    /\ nest = [pc |-> "idle", i |-> 0, w |-> <<>>]

\* the locals of process_file that decide what it writes, before its first
\* statement; fs is the output directory: the body of each file in it
WrStart ==
    [pc |-> "validate", site_id |-> "", units |-> <<>>, i |-> 0, results |-> <<>>,
     fs |-> [nm \in {} |-> ""], wrote |-> FALSE, ret |-> 0]

\* the variables of the artifact writer when no file is written out
IdleWrite ==
    /\ log = [name |-> "", text |-> "", large |-> FALSE, output_dir |-> FALSE]
    /\ wr = [WrStart EXCEPT !.pc = "done"]

\* the variables of the artifact writers of process_directory when none runs
IdleOut ==
    /\ out_in = [files |-> <<>>, max_workers |-> 0, cpu_count |-> 0]
    /\ ow = [pc |-> "done", disk |-> [nm \in {} |-> ""], w |-> <<>>]

\* the locals of process_large_file before its first statement
PgStart ==
    [pc |-> "open", i |-> 0, percents |-> <<>>, results |-> 0, writer |-> "not_called",
     handler |-> FALSE, ret |-> 0]

\* the variables of process_large_file reporting progress when no file is processed
IdleProg ==
    /\ prog_in = [blocks |-> 0, units |-> <<>>, cpu_count |-> 0, output_dir |-> FALSE,
                  fault |-> "none", callback |-> FALSE]
    /\ pg = [PgStart EXCEPT !.pc = "idle"]

\* the locals of process_large_file before the first window of find_markers
FmStart ==
    [pc |-> "scan", i |-> 0, start_positions |-> <<>>, end_positions |-> <<>>,
     unit_positions |-> <<>>, unit_contents |-> <<>>]

\* the variables of the chunked scan over bytes when no file is scanned
IdleBytes ==
    /\ mm_bytes = [content |-> <<>>, block_size |-> 0]
    /\ fm = [FmStart EXCEPT !.pc = "idle"]

InitUnit ==
    /\ unit_content \in UnitInputs \cup WindowUnits
    /\ unit_results = NotCalled
    /\ IdleClean
    /\ IdleSeg
    /\ IdleFile
    /\ IdleDir
    /\ IdleMmap
    /\ IdleNest
    /\ IdleWrite
    /\ IdleOut
    /\ IdleProg
    /\ IdleBytes

\* unit_results = self.process_test_unit(unit_content, site_id, file_path, unit_id)
ProcessTestUnit ==
    /\ ~unit_results.called
    /\ unit_results' = [called |-> TRUE,
                        none |-> process_test_unit(unit_content).none,
                        duts |-> process_test_unit(unit_content).duts]
    /\ UNCHANGED <<unit_content, notUnitVars>>

NextUnit == ProcessTestUnit

SpecUnit == InitUnit /\ [][NextUnit]_vars

---------------------------------------------------------------------------
(* Claims about process_test_unit                                          *)

\* the lines of the status-line window of the unit being processed
WindowLines == StatusSectionLines(Splitlines(unit_content))

\* a status line: starts with DUT<digits> and contains ' -- soft bin 0x'
IsStatusLine(line) ==
    /\ StartsWith(line, "DUT")
    /\ Contains(line, status_line_marker)
    /\ Len(FirstWord(line)) > 3
    /\ \A i \in 4..Len(FirstWord(line)) : IsDigitAt(line, i)

\* the 2-digit rendering of the dut id of a status line
StatusDutId(line) == Fmt02d(DigitsValue(SliceFrom(FirstWord(line), 3)))

HasContent(k) == k \in DOMAIN unit_results.duts /\ unit_results.duts[k] # None

\* C1: a DUT (1..24) with a status line in the window that contains
\* 'fail_functional' has no content in the mapping process_test_unit returns,
\* whether or not CDT blocks exist for it and whatever other status lines it has.
C1_FailedDutSuppressed ==
    unit_results.called =>
        \A i \in 1..Len(WindowLines) :
            (/\ IsStatusLine(WindowLines[i])
             /\ StatusDutId(WindowLines[i]) \in {Fmt02d(d) : d \in 1..24}
             /\ Contains(WindowLines[i], "fail_functional"))
                => ~HasContent(StatusDutId(WindowLines[i]))

\* C2: the mapping process_test_unit returns has content only under keys
\* that are the 2-digit rendering of an integer in 1..24.
C2_DutIdInRange ==
    unit_results.called =>
        \A k \in DOMAIN unit_results.duts :
            unit_results.duts[k] # None => k \in {Fmt02d(i) : i \in 1..24}

\* C3: for a unit that does not contain 'TestBlock = tb_MacawCdtMtstTest :'
\* process_test_unit returns None, whatever status lines the unit contains.
C3_NoSectionNoResult ==
    (unit_results.called /\ ~Contains(unit_content, "TestBlock = tb_MacawCdtMtstTest :"))
        => unit_results.none

---------------------------------------------------------------------------
(* Raw blocks given to clean_cdt_log: a DUT header line, some lines (one   *)
(* of them the terminator itself, so that text can follow a terminator),   *)
(* the terminator.                                                         *)

MaxBlockLines == 3

BlockLineTexts ==
    {"[CDT log] :~~\n",
     "X:1 Y:2\n",
     "  LOT:A7 \t\n",
     "----\n",
     "Annul 5\n",
     "CDT Data <IN>: 00 ff\n",
     "EMMC Transport: SingleBlock Read\n",
     "DUT3 -- soft bin 0x0 -- hard bin 1 -- pass\n",
     "DUT[1] CDT log info:[STlog]device status=0\n",
     "  DUT[2] CDT log info:\n",
     block_end_marker \o "\n"}

BlockInputs ==
    {"DUT[1] CDT log info:\n" \o Concat(body) \o block_end_marker :
        body \in SeqsUpTo(BlockLineTexts, MaxBlockLines)}

InitClean ==
    /\ block_content \in BlockInputs
    /\ cleaned = [called |-> FALSE, value |-> None]
    /\ recleaned = [called |-> FALSE, value |-> None]
    /\ IdleUnit
    /\ IdleSeg
    /\ IdleFile
    /\ IdleDir
    /\ IdleMmap
    /\ IdleNest
    /\ IdleWrite
    /\ IdleOut
    /\ IdleProg
    /\ IdleBytes

\* cleaned_block = self.clean_cdt_log(block)
CleanBlock ==
    /\ ~cleaned.called
    /\ cleaned' = [called |-> TRUE, value |-> clean_cdt_log(block_content)]
    /\ UNCHANGED <<block_content, recleaned, notCleanVars>>

\* clean_cdt_log applied to the content the first call returned
CleanAgain ==
    /\ cleaned.called
    /\ cleaned.value # None
    /\ ~recleaned.called
    /\ recleaned' = [called |-> TRUE, value |-> clean_cdt_log(cleaned.value[1])]
    /\ UNCHANGED <<block_content, cleaned, notCleanVars>>

NextClean == CleanBlock \/ CleanAgain

SpecClean == InitClean /\ [][NextClean]_vars

\* C6: clean_cdt_log is idempotent: when clean_cdt_log(b) returns content c,
\* clean_cdt_log(c) returns exactly c.
C6_CleanIdempotent ==
    (block_content # "" /\ recleaned.called) => recleaned.value = cleaned.value

---------------------------------------------------------------------------
(* The unit segmenters: the in-memory pairing of process_file and the      *)
(* chunked scan and pairing of process_large_file.                         *)

unit_start == "Start_of_Test -----"

unit_end == "Execution time:"

\* [m.start() for m in pattern.finditer(s)] for a literal pattern
RECURSIVE Finditer(_, _, _)
Finditer(s, p, pos) ==
    LET m == Find(s, p, pos)
    IN  IF m = -1 THEN <<>> ELSE <<m>> \o Finditer(s, p, m + Len(p))

\* the inner loop of process_file's pairing: the end of the first end match
\* whose end lies after start_pos, or -1
FirstEndAfter(end_matches, start_pos) ==
    LET later == {k \in 1..Len(end_matches) : end_matches[k] + Len(unit_end) > start_pos}
    IN  IF later = {} THEN -1 ELSE end_matches[MinOf(later)] + Len(unit_end)

\* the outer loop of process_file's pairing
RECURSIVE PairSmall(_, _)
PairSmall(start_matches, end_matches) ==
    IF Len(start_matches) = 0 THEN <<>>
    ELSE LET e == FirstEndAfter(end_matches, Head(start_matches))
         IN  (IF e = -1 THEN <<>> ELSE <<(<<Head(start_matches), e>>)>>)
             \o PairSmall(Tail(start_matches), end_matches)

\* unit_pairs of process_file
SmallUnitPairs(text) ==
    LET start_matches == Finditer(text, unit_start, 0)
        end_matches == Finditer(text, unit_end, 0)
    IN  IF Len(start_matches) > 0 /\ Len(end_matches) > 0
        THEN PairSmall(start_matches, end_matches)
        ELSE <<>>

\* total_blocks of process_large_file
total_blocks(file_size, bs) == (file_size \div bs) + (IF file_size % bs > 0 THEN 1 ELSE 0)

\* find_markers, one window: the positions yielded for the start marker
RECURSIVE BlockStarts(_, _, _)
BlockStarts(block, pos, start_pos) ==
    LET start_match == Find(block, unit_start, pos)
    IN  IF start_match = -1 THEN <<>>
        ELSE <<start_pos + start_match>> \o BlockStarts(block, start_match + 20, start_pos)

\* find_markers, one window: the end positions yielded for the end marker
RECURSIVE BlockEnds(_, _, _)
BlockEnds(block, pos, start_pos) ==
    LET end_match == Find(block, unit_end, pos)
        newline_pos == Find(block, "\n", end_match + 15)
        end_pos == IF newline_pos # -1 THEN start_pos + newline_pos + 1
                   ELSE start_pos + end_match + 15
    IN  IF end_match = -1 THEN <<>>
        ELSE <<end_pos>> \o BlockEnds(block, end_match + 15, start_pos)

\* list.sort() of a list of integers
RECURSIVE Sorted(_)
Sorted(xs) ==
    IF Len(xs) = 0 THEN <<>>
    ELSE LET m == MinOf({xs[i] : i \in 1..Len(xs)})
             k == MinOf({i \in 1..Len(xs) : xs[i] = m})
         IN  <<m>> \o Sorted(SubSeq(xs, 1, k - 1) \o SubSeq(xs, k + 1, Len(xs)))

\* xs.remove(x): xs without the first occurrence of x
Remove(xs, x) ==
    LET k == MinOf({i \in 1..Len(xs) : xs[i] = x})
    IN  SubSeq(xs, 1, k - 1) \o SubSeq(xs, k + 1, Len(xs))

\* the pairing loop of process_large_file
RECURSIVE PairLarge(_, _)
PairLarge(starts, ends) ==
    IF Len(starts) = 0 THEN <<>>
    ELSE LET later == {k \in 1..Len(ends) : ends[k] > Head(starts)}
         IN  IF later = {} THEN PairLarge(Tail(starts), ends)
             ELSE LET matching_end == ends[MinOf(later)]
                  IN  <<(<<Head(starts), matching_end>>)>>
                      \o PairLarge(Tail(starts), Remove(ends, matching_end))

\* unit_positions.sort(key=lambda x: x[0]): a stable sort by start position
RECURSIVE SortByStart(_)
SortByStart(us) ==
    IF Len(us) = 0 THEN <<>>
    ELSE LET m == MinOf({us[i][1] : i \in 1..Len(us)})
             k == MinOf({i \in 1..Len(us) : us[i][1] = m})
         IN  <<us[k]>> \o SortByStart(SubSeq(us, 1, k - 1) \o SubSeq(us, k + 1, Len(us)))

(* Files: texts made of the two markers, line breaks and other text.  The  *)
(* window size stands for the 16 MB of process_large_file, scaled down to  *)
(* the size of these texts; a window is always longer than a marker.       *)

MaxTokens == 4

MinBlockSize == 20

MaxBlockSize == 22

FileTokens == {unit_start, unit_end, "\n", " 12 "}

FileInputs == {Concat(tokens) : tokens \in SeqsUpTo(FileTokens, MaxTokens)}

InitSeg ==
    /\ file_content \in FileInputs
    /\ unit_pairs = [done |-> FALSE, units |-> <<>>]
    /\ block_size \in MinBlockSize..MaxBlockSize
    /\ block_index = 0
    /\ start_positions = <<>>
    /\ end_positions = <<>>
    /\ unit_positions = [done |-> FALSE, units |-> <<>>]
    /\ IdleUnit
    /\ IdleClean
    /\ IdleFile
    /\ IdleDir
    /\ IdleMmap
    /\ IdleNest
    /\ IdleWrite
    /\ IdleOut
    /\ IdleProg
    /\ IdleBytes

\* process_file: the in-memory search for the markers and their pairing
SegmentSmall ==
    /\ ~unit_pairs.done
    /\ unit_pairs' = [done |-> TRUE, units |-> SmallUnitPairs(file_content)]
    /\ UNCHANGED <<file_content, block_size, block_index, start_positions, end_positions,
                   unit_positions, notSegVars>>

\* process_large_file: one iteration of find_markers and of the loop collecting
\* what it yields
ScanBlock ==
    /\ ~unit_positions.done
    /\ block_index < total_blocks(Len(file_content), block_size)
    /\ LET start_pos == block_index * block_size
           block == Slice(file_content, start_pos, start_pos + block_size)
       IN  /\ start_positions' = start_positions \o BlockStarts(block, 0, start_pos)
           /\ end_positions' = end_positions \o BlockEnds(block, 0, start_pos)
    /\ block_index' = block_index + 1
    /\ UNCHANGED <<file_content, unit_pairs, block_size, unit_positions, notSegVars>>

\* process_large_file: sorting the positions, pairing them, sorting the units
PairPositions ==
    /\ ~unit_positions.done
    /\ block_index = total_blocks(Len(file_content), block_size)
    /\ unit_positions' =
           [done |-> TRUE,
            units |-> SortByStart(PairLarge(Sorted(start_positions), Sorted(end_positions)))]
    /\ UNCHANGED <<file_content, unit_pairs, block_size, block_index, start_positions,
                   end_positions, notSegVars>>

NextSeg == SegmentSmall \/ ScanBlock \/ PairPositions

SpecSeg == InitSeg /\ [][NextSeg]_vars

---------------------------------------------------------------------------
(* Claims about the segmenters                                             *)

\* the positions of the markers in the text, in document order
TrueStarts == Finditer(file_content, unit_start, 0)

TrueEnds == Finditer(file_content, unit_end, 0)

\* the position after the line holding the end marker at position e
LineEnd(e) ==
    LET newline_pos == Find(file_content, "\n", e + Len(unit_end))
    IN  IF newline_pos = -1 THEN Len(file_content) ELSE newline_pos + 1

\* N start markers and N end markers in the order start, end, start, end, ...
Alternating ==
    /\ Len(TrueStarts) = Len(TrueEnds)
    /\ \A i \in 1..Len(TrueStarts) :
        /\ TrueStarts[i] < TrueEnds[i]
        /\ i < Len(TrueStarts) => TrueEnds[i] < TrueStarts[i + 1]

\* the in-memory pairing on alternating markers: unit i runs from the i-th
\* start marker to the end of the i-th end marker
SmallPairsAlternating ==
    (unit_pairs.done /\ Alternating) =>
        /\ Len(unit_pairs.units) = Len(TrueStarts)
        /\ \A i \in 1..Len(unit_pairs.units) :
            unit_pairs.units[i] = <<TrueStarts[i], TrueEnds[i] + Len(unit_end)>>

\* the chunked pairing on alternating markers: unit i runs from the i-th start
\* marker to the i-th end marker (to its end, or further into its line)
LargePairsAlternating ==
    (unit_positions.done /\ Alternating) =>
        /\ Len(unit_positions.units) = Len(TrueStarts)
        /\ \A i \in 1..Len(unit_positions.units) :
            /\ unit_positions.units[i][1] = TrueStarts[i]
            /\ unit_positions.units[i][2] >= TrueEnds[i] + Len(unit_end)
            /\ unit_positions.units[i][2] <= LineEnd(TrueEnds[i])

\* C4: with N start and N end markers in alternating order, both pairings give
\* exactly N units, the i-th from the i-th start marker to the i-th end marker.
C4_AlternatingYieldsN == SmallPairsAlternating /\ LargePairsAlternating

\* C5: the chunked segmenter and the in-memory segmenter produce the same
\* ordered list of unit (start, end) boundaries for the same content.
C5_SameBoundaries ==
    (unit_pairs.done /\ unit_positions.done) => unit_pairs.units = unit_positions.units

\* the pairing rule: start markers in document order, each paired with the
\* first end marker after it that no earlier unit has consumed
RECURSIVE RulePairs(_, _)
RulePairs(starts, ends) ==
    IF Len(starts) = 0 THEN <<>>
    ELSE LET free == {k \in 1..Len(ends) : ends[k] > Head(starts)}
         IN  IF free = {} THEN RulePairs(Tail(starts), ends)
             ELSE <<(<<Head(starts), ends[MinOf(free)]>>)>>
                  \o RulePairs(Tail(starts),
                               SubSeq(ends, 1, MinOf(free) - 1)
                               \o SubSeq(ends, MinOf(free) + 1, Len(ends)))

\* the ranges [start, end) of the units are pairwise disjoint
Disjoint(units) ==
    \A i, j \in 1..Len(units) :
        i # j => (units[i][2] <= units[j][1] \/ units[j][2] <= units[i][1])

\* no two units have the same end
DistinctEnds(units) == \A i, j \in 1..Len(units) : i # j => units[i][2] # units[j][2]

SmallPairsByRule ==
    unit_pairs.done =>
        LET rule == RulePairs(TrueStarts, TrueEnds)
        IN  /\ Len(unit_pairs.units) = Len(rule)
            /\ \A i \in 1..Len(rule) :
                unit_pairs.units[i] = <<rule[i][1], rule[i][2] + Len(unit_end)>>

LargePairsByRule ==
    unit_positions.done =>
        LET rule == RulePairs(TrueStarts, TrueEnds)
        IN  /\ Len(unit_positions.units) = Len(rule)
            /\ \A i \in 1..Len(rule) :
                /\ unit_positions.units[i][1] = rule[i][1]
                /\ unit_positions.units[i][2] >= rule[i][2] + Len(unit_end)
                /\ unit_positions.units[i][2] <= LineEnd(rule[i][2])

\* C7: in both paths the unit ranges are pairwise disjoint, no end marker ends
\* more than one unit, and each start marker, in document order, is paired with
\* the first end marker after it that no earlier unit has consumed.
C7_DisjointUnits ==
    /\ unit_pairs.done =>
        (Disjoint(unit_pairs.units) /\ DistinctEnds(unit_pairs.units))
    /\ unit_positions.done => Disjoint(unit_positions.units)
    /\ SmallPairsByRule
    /\ LargePairsByRule

---------------------------------------------------------------------------
(* process_file and process_large_file: control flow, exceptions, the pool *)
(* of unit workers and the call of write_output_files                      *)

UpperLetters == "ABCDEFGHIJKLMNOPQRSTUVWXYZ"

LowerLetters == "abcdefghijklmnopqrstuvwxyz"

\* c.lower() for a string of one character
LowerChar(c) ==
    IF \E k \in 1..Len(UpperLetters) : SubSeq(UpperLetters, k, k) = c
    THEN LET k == CHOOSE k \in 1..Len(UpperLetters) : SubSeq(UpperLetters, k, k) = c
         IN  SubSeq(LowerLetters, k, k)
    ELSE c

\* s.lower()
RECURSIVE Lower(_)
Lower(s) ==
    IF Len(s) = 0 THEN "" ELSE LowerChar(SubSeq(s, 1, 1)) \o Lower(SubSeq(s, 2, Len(s)))

large_file_threshold == 50 * 1024 * 1024

\* validate_input_file(file_path) returns instead of raising
validate_input_file(f) ==
    /\ f.exists
    /\ EndsWith(f.name, ".txt")
    /\ ~(f.size < 100)

system_keywords == {"system", "sys"}

is_system_file(filename) == \E keyword \in system_keywords : Contains(Lower(filename), keyword)

\* os.cpu_count() or 4; 0 stands for a cpu_count() of None
CpuOr4(cpu_count) == IF cpu_count = 0 THEN 4 ELSE cpu_count

\* process_large_file: max_workers = min(os.cpu_count() or 4, unit_count, 8)
UnitWorkers(f) == Min2(Min2(CpuOr4(f.cpu_count), Len(f.units)), 8)

\* process_large_file: the units go to the thread pool
UsePool(f) == Len(f.units) > 1 /\ UnitWorkers(f) > 1

\* process_large_file: batch_size = max(1, len(unit_data) // max_workers)
batch_size(f) == Max2(1, Len(f.units) \div UnitWorkers(f))

IsLarge(f) == f.size > large_file_threshold

\* process_file's handler: except Exception as e: ... return 0
OnExceptionReraise(stage) == [ret |-> 0, propagated |-> TRUE]

OnException(stage) == [ret |-> 0, propagated |-> FALSE]

\* process_large_file's handler: except Exception as e: ... return 0
OnLargeException(stage) == [ret |-> 0, propagated |-> FALSE]

\* an exception raised in a stage of process_file reaches its handler
Except(st, stage) ==
    [st EXCEPT !.pc = "done", !.raised_in = @ \cup {stage},
               !.ret = OnException(stage).ret,
               !.propagated = OnException(stage).propagated]

\* an exception raised in a stage of process_large_file reaches its handler, and
\* process_file returns what process_large_file returns
ExceptLarge(st, stage) ==
    [st EXCEPT !.pc = "done", !.raised_in = @ \cup {stage},
               !.ret = OnLargeException(stage).ret,
               !.propagated = OnLargeException(stage).propagated]

ExceptPath(st, stage) == IF IsLarge(file_in) THEN ExceptLarge(st, stage) ELSE Except(st, stage)

\* the loop over the units has run to its end
LoopDoneEarly(i, n) == i >= 1 \/ i = n

LoopDone(i, n) == i = n

\* if output_dir and results:
ShouldWrite(output_dir, results) == output_dir /\ results > 0

\* return len(results) if results else 0
ResultCount(results) == IF results > 0 THEN results ELSE 0

MaxUnits == 4

MaxCpu == 2

Stages == {"read", "fallback", "segment", "write"}

UnitOutcomes == {"result", "none", "raise"}

\* files for validate_input_file and is_system_file: missing or not, by name,
\* below and at the least size
NamedFiles ==
    {[exists |-> e, name |-> nm, size |-> sz, output_dir |-> TRUE, cpu_count |-> 1,
      faults |-> {}, units |-> <<"result">>] :
        e \in BOOLEAN, nm \in {"a.txt", "a.log", "B.TXT", "sys_a.txt"}, sz \in {99, 100}}

\* files that are processed: just large enough, as large as a small file gets,
\* and large
AcceptedFiles ==
    {[exists |-> TRUE, name |-> "a.txt", size |-> sz, output_dir |-> od, cpu_count |-> cpu,
      faults |-> fs, units |-> us] :
        sz \in {100, large_file_threshold, large_file_threshold + 1},
        od \in BOOLEAN, cpu \in 0..MaxCpu, fs \in SUBSET Stages,
        us \in SeqsUpTo(UnitOutcomes, MaxUnits)}

InitFile ==
    /\ file_in \in NamedFiles \cup AcceptedFiles
    /\ pf = PfStart
    /\ IdleUnit
    /\ IdleClean
    /\ IdleSeg
    /\ IdleDir
    /\ IdleMmap
    /\ IdleNest
    /\ IdleWrite
    /\ IdleOut
    /\ IdleProg
    /\ IdleBytes

\* self.validate_input_file(file_path); is_system_file; the choice of the path
ValidateFile ==
    /\ pf.pc = "validate"
    /\ pf' = IF ~validate_input_file(file_in) THEN Except(pf, "validate")
             ELSE IF is_system_file(file_in.name) THEN [pf EXCEPT !.pc = "done", !.ret = 0]
             ELSE IF file_in.size > large_file_threshold THEN [pf EXCEPT !.pc = "open"]
             ELSE [pf EXCEPT !.pc = "read"]
    /\ UNCHANGED <<file_in, notFileVars>>

\* process_file: the read as UTF-8 text and, when it raises, the binary read
ReadFile ==
    /\ pf.pc = "read"
    /\ pf' = IF "read" \notin file_in.faults THEN [pf EXCEPT !.pc = "segment"]
             ELSE IF "fallback" \notin file_in.faults
                  THEN [pf EXCEPT !.pc = "segment", !.raised_in = @ \cup {"read"},
                                  !.recovered = @ \cup {"read"}]
                  ELSE Except([pf EXCEPT !.raised_in = @ \cup {"read"}], "fallback")
    /\ UNCHANGED <<file_in, notFileVars>>

\* process_file: find_site_id, the search for the markers and their pairing
FindUnits ==
    /\ pf.pc = "segment"
    /\ pf' = IF "segment" \in file_in.faults THEN Except(pf, "segment")
             ELSE [pf EXCEPT !.pc = IF LoopDone(0, Len(file_in.units))
                                    THEN "write" ELSE "units"]
    /\ UNCHANGED <<file_in, notFileVars>>

\* process_large_file: open and mmap
OpenLargeFile ==
    /\ pf.pc = "open"
    /\ pf' = IF "read" \in file_in.faults THEN ExceptLarge(pf, "read")
             ELSE [pf EXCEPT !.pc = "scan"]
    /\ UNCHANGED <<file_in, notFileVars>>

\* process_large_file: the site id, find_markers, the pairing, and the choice
\* between the pool and the loop
ScanLargeFile ==
    /\ pf.pc = "scan"
    /\ pf' = IF "segment" \in file_in.faults THEN ExceptLarge(pf, "segment")
             ELSE IF UsePool(file_in)
                  THEN [pf EXCEPT !.pc = "submit",
                                  !.futures = [u \in 1..Len(file_in.units) |-> "new"]]
                  ELSE [pf EXCEPT !.pc = IF LoopDone(0, Len(file_in.units))
                                         THEN "write" ELSE "units"]
    /\ UNCHANGED <<file_in, notFileVars>>

\* one iteration of the loop over the units, in the calling thread
ProcessUnit ==
    /\ pf.pc = "units"
    /\ LET u == pf.i + 1
           outcome == file_in.units[u]
       IN  pf' = IF outcome = "raise"
                 THEN ExceptPath([pf EXCEPT !.finished = @ \cup {u}], "unit")
                 ELSE [pf EXCEPT !.i = u, !.finished = @ \cup {u},
                                 !.results = @ + (IF outcome = "result" THEN 1 ELSE 0),
                                 !.pc = IF LoopDone(u, Len(file_in.units))
                                        THEN "write" ELSE "units"]
    /\ UNCHANGED <<file_in, notFileVars>>

\* the number of futures in a state
CountIn(futures, state) == Cardinality({u \in DOMAIN futures : futures[u] = state})

\* one batch that takes every unit that is left
BatchEndAll(f, b) == Len(f.units)

\* the end (exclusive, 0-based) of the batch that starts at unit b
BatchEnd(f, b) == Min2(b + batch_size(f), Len(f.units))

\* executor.map(process_unit, batch) submits every unit of the batch
SubmitBatch ==
    /\ pf.pc = "submit"
    /\ pf' = [pf EXCEPT !.pc = "collect", !.i = pf.batch,
                        !.futures = [u \in DOMAIN pf.futures |->
                                        IF u > pf.batch /\ u <= BatchEnd(file_in, pf.batch)
                                        THEN "queued" ELSE pf.futures[u]]]
    /\ UNCHANGED <<file_in, notFileVars>>

\* a free worker thread takes the oldest queued unit
WorkerStart(u) ==
    /\ pf.pc \in {"collect", "failed"}
    /\ pf.futures[u] = "queued"
    /\ \A v \in DOMAIN pf.futures : pf.futures[v] = "queued" => u <= v
    /\ CountIn(pf.futures, "running") < UnitWorkers(file_in)
    /\ pf' = [pf EXCEPT !.futures[u] = "running"]
    /\ UNCHANGED <<file_in, notFileVars>>

\* process_unit returns or raises in its worker thread
WorkerFinish(u) ==
    /\ pf.pc \in {"collect", "failed"}
    /\ pf.futures[u] = "running"
    /\ pf' = [pf EXCEPT !.futures[u] = "done", !.finished = @ \cup {u}]
    /\ UNCHANGED <<file_in, notFileVars>>

\* for unit_result in executor.map(...): the next result of the batch, in the
\* order of submission; a raising unit raises here and map cancels the units
\* still queued
CollectResult ==
    /\ pf.pc = "collect"
    /\ LET u == pf.i + 1
           outcome == file_in.units[u]
       IN  /\ pf.futures[u] = "done"
           /\ pf' = IF outcome = "raise"
                    THEN [pf EXCEPT !.pc = "failed", !.raised_in = @ \cup {"unit"},
                                    !.futures = [v \in DOMAIN pf.futures |->
                                                    IF pf.futures[v] = "queued"
                                                    THEN "cancelled" ELSE pf.futures[v]]]
                    ELSE [pf EXCEPT !.i = u,
                                    !.results = @ + (IF outcome = "result" THEN 1 ELSE 0),
                                    !.batch = IF u = BatchEnd(file_in, pf.batch)
                                              THEN u ELSE pf.batch,
                                    !.pc = IF u < BatchEnd(file_in, pf.batch) THEN "collect"
                                           ELSE IF u = Len(file_in.units) THEN "write"
                                           ELSE "submit"]
    /\ UNCHANGED <<file_in, notFileVars>>

\* the with block of the executor waits for the running units, then the
\* exception of the unit reaches the handler of process_large_file
PoolFailed ==
    /\ pf.pc = "failed"
    /\ CountIn(pf.futures, "running") = 0
    /\ pf' = ExceptLarge(pf, "unit")
    /\ UNCHANGED <<file_in, notFileVars>>

\* after the units: write_output_files if there is something to write, and the
\* return of the number of results
WriteOutput ==
    /\ pf.pc = "write"
    /\ pf' = IF ShouldWrite(file_in.output_dir, pf.results)
             THEN LET st == [pf EXCEPT !.writes = @ + 1,
                                       !.write_log = Append(@, pf.finished)]
                  IN  IF "write" \in file_in.faults THEN ExceptPath(st, "write")
                      ELSE [st EXCEPT !.pc = "done", !.ret = ResultCount(pf.results)]
             ELSE [pf EXCEPT !.pc = "done", !.ret = ResultCount(pf.results)]
    /\ UNCHANGED <<file_in, notFileVars>>

NextFile ==
    \/ ValidateFile
    \/ ReadFile
    \/ FindUnits
    \/ OpenLargeFile
    \/ ScanLargeFile
    \/ ProcessUnit
    \/ SubmitBatch
    \/ \E u \in DOMAIN pf.futures : WorkerStart(u)
    \/ \E u \in DOMAIN pf.futures : WorkerFinish(u)
    \/ CollectResult
    \/ PoolFailed
    \/ WriteOutput

SpecFile == InitFile /\ [][NextFile]_vars

\* the number of units of a file for which process_test_unit returns a result
UnitResults(f) == Cardinality({u \in DOMAIN f.units : f.units[u] = "result"})

\* process_file gets as far as the statement after the units: the file is
\* accepted, it is read (or read again in binary mode), and no stage raises
CompletesUnits(f) ==
    /\ validate_input_file(f)
    /\ ~is_system_file(f.name)
    /\ IF IsLarge(f) THEN "read" \notin f.faults
       ELSE ~({"read", "fallback"} \subseteq f.faults)
    /\ "segment" \notin f.faults
    /\ \A u \in DOMAIN f.units : f.units[u] # "raise"

\* what process_file returns for a file
ProcessFileReturn(f) ==
    IF /\ CompletesUnits(f)
       /\ ~(ShouldWrite(f.output_dir, UnitResults(f)) /\ "write" \in f.faults)
    THEN ResultCount(UnitResults(f))
    ELSE 0

\* process_file returns what ProcessFileReturn says, whatever the order in
\* which the workers run
ReturnIsFunctionOfFile == pf.pc = "done" => pf.ret = ProcessFileReturn(file_in)

---------------------------------------------------------------------------
(* Claims about process_file                                               *)

\* the file is missing, has no .txt extension, or is smaller than 100 bytes
Rejected(f) == ~f.exists \/ ~EndsWith(f.name, ".txt") \/ f.size < 100

\* the stages whose exception was not recovered inside process_file
Escaped == pf.raised_in \ pf.recovered

\* C8: process_file never propagates an exception to its caller, and it returns
\* 0 for a missing file, a file without the .txt extension, a file smaller than
\* 100 bytes, and whenever reading, segmentation, unit processing or writing
\* raises an exception (on the small path and on the large path).
C8_NeverPropagates ==
    /\ ~pf.propagated
    /\ (pf.pc = "done" /\ (Rejected(file_in) \/ Escaped # {})) => pf.ret = 0

\* a unit raised after another unit had produced a result, and process_file
\* returned 0
C8_Witness ==
    /\ pf.pc = "done"
    /\ "unit" \in pf.raised_in
    /\ pf.results > 0
    /\ pf.ret = 0
    /\ ~pf.propagated

\* the file was accepted and processed to the end without an exception
Processed == validate_input_file(file_in) /\ ~is_system_file(file_in.name) /\ Escaped = {}

AllUnits == 1..Len(file_in.units)

\* C10, as stated: for every processed file write_output_files is invoked
\* exactly once, and only after every unit of the file has finished processing.
C10_WriteExactlyOnce ==
    (pf.pc = "done" /\ Processed) => (pf.writes = 1 /\ pf.write_log = <<AllUnits>>)

\* C10, amended: write_output_files is invoked at most once per file, never
\* before every unit of the file has finished processing, and it is invoked
\* exactly when the processing of the units completes with an output directory
\* and at least one unit result.
C10_WriteAtMostOnceAfterUnits ==
    /\ pf.writes = Len(pf.write_log)
    /\ pf.writes <= 1
    /\ \A k \in 1..Len(pf.write_log) : pf.write_log[k] = AllUnits
    /\ pf.pc = "done" =>
        (pf.writes = 1 <=> /\ CompletesUnits(file_in)
                           /\ file_in.output_dir
                           /\ UnitResults(file_in) > 0)

\* a large file whose units ran in the pool, two to a batch, was written once
C10_Witness ==
    /\ pf.pc = "done"
    /\ pf.writes = 1
    /\ UsePool(file_in)
    /\ batch_size(file_in) >= 2
    /\ pf.ret >= 2

---------------------------------------------------------------------------
(* process_directory: the eligible files, the pool of file workers and the *)
(* sum of what process_file returns                                        *)

MaxFiles == 3

MaxWorkers == 2

\* a file of the directory; process_directory always passes an output directory
DirFile(name, size, faults, units) ==
    [exists |-> TRUE, name |-> name, size |-> size, output_dir |-> TRUE, cpu_count |-> 1,
     faults |-> faults, units |-> units]

\* files that give 2 results, 1 result, 0 after a raising unit, 0 for the
\* upper-case extension that validate_input_file rejects, and files that
\* process_directory leaves out
DirFiles ==
    {DirFile("a.txt", 100, {}, <<"result", "result">>),
     DirFile("b.txt", large_file_threshold + 1, {}, <<"none", "result">>),
     DirFile("c.txt", 100, {}, <<"result", "raise">>),
     DirFile("B.TXT", 100, {}, <<"result">>),
     DirFile("sys_a.txt", 100, {}, <<"result">>),
     DirFile("a.log", 100, {}, <<"result">>)}

InitDir ==
    /\ dir_in \in [files : SeqsUpTo(DirFiles, MaxFiles), max_workers : 0..MaxWorkers,
                   cpu_count : 0..MaxCpu]
    /\ dir_in.max_workers # 0 => dir_in.cpu_count = 0
    /\ pd = PdStart
    /\ IdleUnit
    /\ IdleClean
    /\ IdleSeg
    /\ IdleFile
    /\ IdleMmap
    /\ IdleNest
    /\ IdleWrite
    /\ IdleOut
    /\ IdleProg
    /\ IdleBytes

\* if file.lower().endswith('.txt') and not self.is_system_file(file)
Eligible(f) == EndsWith(Lower(f.name), ".txt") /\ ~is_system_file(f.name)

\* the indexes of the eligible files, in the order of the walk
RECURSIVE TxtFiles(_, _)
TxtFiles(files, k) ==
    IF k > Len(files) THEN <<>>
    ELSE (IF Eligible(files[k]) THEN <<k>> ELSE <<>>) \o TxtFiles(files, k + 1)

\* max_workers as given, or min(os.cpu_count() or 4, 8) when it is None (0)
FileWorkers(d) ==
    IF d.max_workers = 0 THEN Min2(CpuOr4(d.cpu_count), 8) ELSE d.max_workers

\* total_results += result_count
AddCountOverwrite(total_results, result_count) == result_count

AddCount(total_results, result_count) == total_results + result_count

\* the walk of the directory and the choice between the pool and the loop
ListFiles ==
    /\ pd.pc = "list"
    /\ LET txt_files == TxtFiles(dir_in.files, 1)
       IN  pd' = IF Len(txt_files) = 0 THEN [pd EXCEPT !.pc = "done", !.ret = 0]
                 ELSE IF Len(txt_files) >= 2
                      THEN [pd EXCEPT !.pc = "collect", !.txt_files = txt_files,
                                      !.futures = [k \in 1..Len(txt_files) |-> "queued"]]
                      ELSE [pd EXCEPT !.pc = "sequential", !.txt_files = txt_files]
    /\ UNCHANGED <<dir_in, notDirVars>>

\* a free worker thread takes the oldest queued file
FileWorkerStart(k) ==
    /\ pd.pc = "collect"
    /\ pd.futures[k] = "queued"
    /\ \A j \in DOMAIN pd.futures : pd.futures[j] = "queued" => k <= j
    /\ CountIn(pd.futures, "running") < FileWorkers(dir_in)
    /\ pd' = [pd EXCEPT !.futures[k] = "running"]
    /\ UNCHANGED <<dir_in, notDirVars>>

\* process_file returns in its worker thread
FileWorkerFinish(k) ==
    /\ pd.pc = "collect"
    /\ pd.futures[k] = "running"
    /\ pd' = [pd EXCEPT !.futures[k] = "done"]
    /\ UNCHANGED <<dir_in, notDirVars>>

\* for future in future_to_file: result_count = future.result(); the return
\* after the last one
CollectFile ==
    /\ pd.pc = "collect"
    /\ LET k == pd.i + 1
           total == AddCount(pd.total_results,
                             ProcessFileReturn(dir_in.files[pd.txt_files[k]]))
       IN  /\ pd.futures[k] = "done"
           /\ pd' = [pd EXCEPT !.i = k, !.total_results = total,
                               !.processed_files = @ + 1,
                               !.pc = IF k = Len(pd.txt_files) THEN "done" ELSE "collect",
                               !.ret = IF k = Len(pd.txt_files) THEN total ELSE @]
    /\ UNCHANGED <<dir_in, notDirVars>>

\* the sequential loop: result_count = self.process_file(...); the return after
\* the last file
ProcessNextFile ==
    /\ pd.pc = "sequential"
    /\ LET k == pd.i + 1
           total == AddCount(pd.total_results,
                             ProcessFileReturn(dir_in.files[pd.txt_files[k]]))
       IN  pd' = [pd EXCEPT !.i = k, !.total_results = total,
                            !.processed_files = @ + 1,
                            !.pc = IF k = Len(pd.txt_files) THEN "done" ELSE "sequential",
                            !.ret = IF k = Len(pd.txt_files) THEN total ELSE @]
    /\ UNCHANGED <<dir_in, notDirVars>>

NextDir ==
    \/ ListFiles
    \/ \E k \in DOMAIN pd.futures : FileWorkerStart(k)
    \/ \E k \in DOMAIN pd.futures : FileWorkerFinish(k)
    \/ CollectFile
    \/ ProcessNextFile

SpecDir == InitDir /\ [][NextDir]_vars

---------------------------------------------------------------------------
(* Claims about process_directory                                          *)

\* the sum of what process_file returns over the eligible files from the k-th on
RECURSIVE SumOfCounts(_, _)
SumOfCounts(files, k) ==
    IF k > Len(files) THEN 0
    ELSE (IF Eligible(files[k]) THEN ProcessFileReturn(files[k]) ELSE 0)
         + SumOfCounts(files, k + 1)

EligibleCount(files) == Cardinality({k \in 1..Len(files) : Eligible(files[k])})

\* C9: process_directory returns the sum of the counts that process_file returns
\* over all eligible files, in the sequential and in the pooled mode: a file
\* whose processing fails contributes 0, and every other eligible file is still
\* processed and counted.
C9_SumOfFileCounts ==
    pd.pc = "done" =>
        /\ pd.ret = SumOfCounts(dir_in.files, 1)
        /\ pd.processed_files = EligibleCount(dir_in.files)

\* a pooled run has ended in which a failed file came before a file with results
C9_Witness ==
    /\ pd.pc = "done"
    /\ Len(pd.futures) >= 2
    /\ \E j, k \in 1..Len(dir_in.files) :
        /\ j < k
        /\ Eligible(dir_in.files[j])
        /\ ~CompletesUnits(dir_in.files[j])
        /\ Eligible(dir_in.files[k])
        /\ ProcessFileReturn(dir_in.files[k]) > 0
    /\ pd.ret > 0

---------------------------------------------------------------------------
(* Claims about the chunked marker scan                                    *)

\* find_markers has read every window of the file
ScanComplete ==
    /\ block_size > 0
    /\ block_index = total_blocks(Len(file_content), block_size)

\* C18: the chunked scan reports every occurrence of the start marker and of the
\* end marker exactly once, wherever the occurrence lies relative to the window
\* boundaries - also when its literal straddles two windows and when two
\* occurrences are directly adjacent.
C18_EveryMarkerOnce ==
    ScanComplete =>
        /\ start_positions = TrueStarts
        /\ Len(end_positions) = Len(TrueEnds)
        /\ \A i \in 1..Len(TrueEnds) :
            /\ end_positions[i] >= TrueEnds[i] + Len(unit_end)
            /\ end_positions[i] <= LineEnd(TrueEnds[i])

---------------------------------------------------------------------------
(* Claims about start markers without an end marker                        *)

\* the start markers that the pairing rule leaves without an end marker
UnmatchedStarts ==
    {TrueStarts[k] : k \in 1..Len(TrueStarts)}
    \ {RulePairs(TrueStarts, TrueEnds)[k][1] :
          k \in 1..Len(RulePairs(TrueStarts, TrueEnds))}

\* the last start marker of the file, when it is one of them
TrailingUnmatched ==
    IF Len(TrueStarts) > 0 /\ TrueStarts[Len(TrueStarts)] \in UnmatchedStarts
    THEN {TrueStarts[Len(TrueStarts)]}
    ELSE {}

StartsOf(units) == {units[k][1] : k \in 1..Len(units)}

\* the half of C19 about the small path: an unmatched start gives no unit
SmallDropsUnmatched ==
    unit_pairs.done => StartsOf(unit_pairs.units) \cap UnmatchedStarts = {}

\* the half of C19 about the large path: an unmatched start gives no unit unless
\* it is the trailing one, which gives the unit from it to the end of the file
LargeExtendsTrailing ==
    unit_positions.done =>
        /\ StartsOf(unit_positions.units) \cap (UnmatchedStarts \ TrailingUnmatched) = {}
        /\ \A s \in TrailingUnmatched :
            \E k \in 1..Len(unit_positions.units) :
                unit_positions.units[k] = <<s, Len(file_content)>>

\* C19: a start marker for which no unconsumed end marker occurs later produces
\* no unit, except in the large-file path, where a trailing unmatched start
\* marker produces a unit extending from that start to the end of the file.
C19_UnmatchedStart == SmallDropsUnmatched /\ LargeExtendsTrailing

---------------------------------------------------------------------------
(* Claims about the end of a unit                                          *)

\* the ends of the lines that hold an end marker
MarkerLineEnds == {LineEnd(TrueEnds[k]) : k \in 1..Len(TrueEnds)}

\* C20: every unit range produced by the segmenter, in the small path and in
\* the large path, ends at the end of the line that contains its end marker, so
\* that the rest of that line is inside the unit.
C20_UnitEndsAtLineEnd ==
    /\ unit_pairs.done =>
        \A k \in 1..Len(unit_pairs.units) : unit_pairs.units[k][2] \in MarkerLineEnds
    /\ unit_positions.done =>
        \A k \in 1..Len(unit_positions.units) :
            unit_positions.units[k][2] \in MarkerLineEnds

---------------------------------------------------------------------------
(* Claims about a failing unit of a large file                             *)

\* a large file that is read and segmented, one of whose units raises
LargeWithFailingUnit ==
    /\ validate_input_file(file_in)
    /\ ~is_system_file(file_in.name)
    /\ IsLarge(file_in)
    /\ {"read", "segment", "write"} \cap file_in.faults = {}
    /\ \E u \in DOMAIN file_in.units : file_in.units[u] = "raise"

\* C14: if the processing of one unit of a large file raises an exception, the
\* failure is confined to that unit: the other units of the file are still
\* processed, and the results of the units that completed are still written and
\* counted in the return value of the file.
C14_UnitFailureConfined ==
    (pf.pc = "done" /\ LargeWithFailingUnit) =>
        /\ pf.finished = AllUnits
        /\ pf.ret = UnitResults(file_in)
        /\ (file_in.output_dir /\ UnitResults(file_in) > 0) => pf.writes = 1

---------------------------------------------------------------------------
(* process_large_file: the unit workers and the memory map they share      *)

MaxPoolUnits == 4

\* the text of the k-th test unit of a file
PoolUnitText(k) ==
    unit_start \o "\nTD" \o NatStr(k) \o "\n" \o unit_end \o " 1\n"

\* a file of n test units
RECURSIVE PoolFileText(_)
PoolFileText(n) == IF n = 0 THEN "" ELSE PoolFileText(n - 1) \o PoolUnitText(n)

\* the unit positions of process_large_file for a text that lies in one window
LargeUnitPositions(text) ==
    SortByStart(PairLarge(Sorted(BlockStarts(text, 0, 0)), Sorted(BlockEnds(text, 0, 0))))

InitMmap ==
    /\ \E n \in 0..MaxPoolUnits, cpu \in 0..MaxCpu :
        /\ mm = [content |-> PoolFileText(n), pos |-> 0]
        /\ pool = [units |-> LargeUnitPositions(PoolFileText(n)), cpu_count |-> cpu,
                   pc |-> "mode", batch |-> 0, i |-> 0,
                   futures |-> [u \in 1..n |-> "new"],
                   unit_texts |-> [u \in 1..n |-> None]]
    /\ IdleUnit
    /\ IdleClean
    /\ IdleSeg
    /\ IdleFile
    /\ IdleDir
    /\ IdleNest
    /\ IdleWrite
    /\ IdleOut
    /\ IdleProg
    /\ IdleBytes

\* mm.read(n): the text at the position of the map, which moves past it
MmRead(m, n) == Slice(m.content, m.pos, m.pos + n)

\* if unit_count > 1 ... if max_workers > 1: the pool, else the loop
ChooseMode ==
    /\ pool.pc = "mode"
    /\ pool' = [pool EXCEPT !.pc = IF UsePool(pool) THEN "submit"
                                   ELSE IF Len(pool.units) = 0 THEN "done" ELSE "loop"]
    /\ UNCHANGED <<mm, notMmapVars>>

\* process_unit in the calling thread: seek, read, process_test_unit
LoopUnit ==
    /\ pool.pc = "loop"
    /\ LET u == pool.i + 1
           start_pos == pool.units[u][1]
           end_pos == pool.units[u][2]
       IN  /\ mm' = [mm EXCEPT !.pos = Min2(start_pos + (end_pos - start_pos),
                                            Len(mm.content))]
           /\ pool' = [pool EXCEPT !.i = u, !.futures[u] = "done",
                                   !.unit_texts[u] =
                                       Some(MmRead([mm EXCEPT !.pos = start_pos],
                                                   end_pos - start_pos)),
                                   !.pc = IF u = Len(pool.units) THEN "done" ELSE "loop"]
    /\ UNCHANGED notMmapVars

\* executor.map(process_unit, batch) submits every unit of the batch
SubmitUnits ==
    /\ pool.pc = "submit"
    /\ pool' = [pool EXCEPT !.pc = "collect", !.i = pool.batch,
                            !.futures = [u \in DOMAIN pool.futures |->
                                            IF u > pool.batch /\ u <= BatchEnd(pool, pool.batch)
                                            THEN "queued" ELSE pool.futures[u]]]
    /\ UNCHANGED <<mm, notMmapVars>>

\* a free worker takes the oldest queued unit; process_unit: mm.seek(start_pos)
UnitSeek(u) ==
    /\ pool.futures[u] = "queued"
    /\ \A v \in DOMAIN pool.futures : pool.futures[v] = "queued" => u <= v
    /\ Cardinality({v \in DOMAIN pool.futures : pool.futures[v] \in {"seeked", "read"}})
           < UnitWorkers(pool)
    /\ mm' = [mm EXCEPT !.pos = pool.units[u][1]]
    /\ pool' = [pool EXCEPT !.futures[u] = "seeked"]
    /\ UNCHANGED notMmapVars

\* process_unit: unit_content = mm.read(end_pos - start_pos).decode(...)
UnitRead(u) ==
    /\ pool.futures[u] = "seeked"
    /\ LET n == pool.units[u][2] - pool.units[u][1]
       IN  /\ pool' = [pool EXCEPT !.futures[u] = "read", !.unit_texts[u] = Some(MmRead(mm, n))]
           /\ mm' = [mm EXCEPT !.pos = Min2(mm.pos + n, Len(mm.content))]
    /\ UNCHANGED notMmapVars

\* process_unit: self.process_test_unit(unit_content, ...) and the return
UnitReturn(u) ==
    /\ pool.futures[u] = "read"
    /\ pool' = [pool EXCEPT !.futures[u] = "done"]
    /\ UNCHANGED <<mm, notMmapVars>>

\* for unit_result in executor.map(...): the next result, in submission order
CollectUnit ==
    /\ pool.pc = "collect"
    /\ LET u == pool.i + 1
       IN  /\ pool.futures[u] = "done"
           /\ pool' = [pool EXCEPT !.i = u,
                                   !.batch = IF u = BatchEnd(pool, pool.batch)
                                             THEN u ELSE pool.batch,
                                   !.pc = IF u < BatchEnd(pool, pool.batch) THEN "collect"
                                          ELSE IF u = Len(pool.units) THEN "done"
                                          ELSE "submit"]
    /\ UNCHANGED <<mm, notMmapVars>>

NextMmap ==
    \/ ChooseMode
    \/ LoopUnit
    \/ SubmitUnits
    \/ \E u \in DOMAIN pool.futures : UnitSeek(u)
    \/ \E u \in DOMAIN pool.futures : UnitRead(u)
    \/ \E u \in DOMAIN pool.futures : UnitReturn(u)
    \/ CollectUnit

SpecMmap == InitMmap /\ [][NextMmap]_vars

---------------------------------------------------------------------------
(* Claims about the shared memory map                                      *)

\* C17: for every interleaving of the unit workers, the text a worker passes to
\* process_test_unit for unit i is the decoding of exactly the bytes
\* [start_i, end_i) of the file: the seek-then-read of one worker on the shared
\* memory map is never disturbed by another worker.
C17_WorkerReadsOwnRange ==
    \A u \in DOMAIN pool.unit_texts :
        pool.unit_texts[u] # None =>
            pool.unit_texts[u] = Some(Slice(mm.content, pool.units[u][1], pool.units[u][2]))

---------------------------------------------------------------------------
(* process_directory over large files: the pool of file workers and, inside *)
(* each running process_large_file, its own pool of unit workers            *)

MaxNestFiles == 2

\* small files of one unit and large files of two and of four units
NestFiles ==
    {DirFile("a.txt", 100, {}, <<"result">>),
     DirFile("b.txt", large_file_threshold + 1, {}, <<"result", "result">>),
     DirFile("c.txt", large_file_threshold + 1, {},
             <<"result", "result", "result", "result">>)}

\* a file of the directory as its worker sees it: os.cpu_count() is the same
\* for every thread
NestFile(k) == [nest_in.files[k] EXCEPT !.cpu_count = nest_in.cpu_count]

\* the file worker before it has taken its file
WorkerStartState(f) ==
    [state |-> "queued", pc |-> "start", batch |-> 0, i |-> 0,
     futures |-> [u \in 1..Len(f.units) |-> "new"]]

\* process_directory is called without max_workers (None), as main() calls it
InitNest ==
    /\ nest_in \in [files : SeqsUpTo(NestFiles, MaxNestFiles), max_workers : {0},
                    cpu_count : 1..MaxCpu]
    /\ nest = [pc |-> "list", i |-> 0,
               w |-> [k \in 1..Len(nest_in.files) |-> WorkerStartState(nest_in.files[k])]]
    /\ IdleUnit
    /\ IdleClean
    /\ IdleSeg
    /\ IdleFile
    /\ IdleDir
    /\ IdleMmap
    /\ IdleWrite
    /\ IdleOut
    /\ IdleProg
    /\ IdleBytes

\* the walk (every file of NestFiles is eligible) and the choice of the mode
NestList ==
    /\ nest.pc = "list"
    /\ nest' = [nest EXCEPT !.pc = IF Len(nest_in.files) = 0 THEN "done"
                                   ELSE IF Len(nest_in.files) >= 2 THEN "collect"
                                   ELSE "sequential"]
    /\ UNCHANGED <<nest_in, notNestVars>>

\* where process_file is after its first statements: in the pool of
\* process_large_file, or in a loop over the units in the thread itself
AfterStart(f) == IF IsLarge(f) /\ UsePool(f) THEN "submit" ELSE "loop"

\* a free file worker takes the oldest queued file and starts process_file
NestFileStart(k) ==
    /\ nest.pc = "collect"
    /\ nest.w[k].state = "queued"
    /\ \A j \in DOMAIN nest.w : nest.w[j].state = "queued" => k <= j
    /\ Cardinality({j \in DOMAIN nest.w : nest.w[j].state = "running"})
           < FileWorkers(nest_in)
    /\ nest' = [nest EXCEPT !.w[k].state = "running", !.w[k].pc = AfterStart(NestFile(k))]
    /\ UNCHANGED <<nest_in, notNestVars>>

\* the sequential mode: process_file for the only file, in the calling thread
NestSequentialStart ==
    /\ nest.pc = "sequential"
    /\ nest.w[1].state = "queued"
    /\ nest' = [nest EXCEPT !.w[1].state = "running", !.w[1].pc = AfterStart(NestFile(1))]
    /\ UNCHANGED <<nest_in, notNestVars>>

\* process_file without a unit pool: all its units, in the thread of the file
NestFileLoop(k) ==
    /\ nest.w[k].state = "running"
    /\ nest.w[k].pc = "loop"
    /\ nest' = [nest EXCEPT !.w[k].pc = "end",
                            !.w[k].futures = [u \in DOMAIN nest.w[k].futures |-> "done"]]
    /\ UNCHANGED <<nest_in, notNestVars>>

\* process_large_file: executor.map(process_unit, batch) on its own executor
NestSubmitBatch(k) ==
    /\ nest.w[k].state = "running"
    /\ nest.w[k].pc = "submit"
    /\ nest' = [nest EXCEPT !.w[k].pc = "collect", !.w[k].i = nest.w[k].batch,
                            !.w[k].futures =
                                [u \in DOMAIN nest.w[k].futures |->
                                    IF /\ u > nest.w[k].batch
                                       /\ u <= BatchEnd(NestFile(k), nest.w[k].batch)
                                    THEN "queued" ELSE nest.w[k].futures[u]]]
    /\ UNCHANGED <<nest_in, notNestVars>>

\* a free unit worker of the executor of file k takes its oldest queued unit
NestUnitStart(k, u) ==
    /\ nest.w[k].futures[u] = "queued"
    /\ \A v \in DOMAIN nest.w[k].futures : nest.w[k].futures[v] = "queued" => u <= v
    /\ CountIn(nest.w[k].futures, "running") < UnitWorkers(NestFile(k))
    /\ nest' = [nest EXCEPT !.w[k].futures[u] = "running"]
    /\ UNCHANGED <<nest_in, notNestVars>>

\* process_unit returns in its unit worker
NestUnitFinish(k, u) ==
    /\ nest.w[k].futures[u] = "running"
    /\ nest' = [nest EXCEPT !.w[k].futures[u] = "done"]
    /\ UNCHANGED <<nest_in, notNestVars>>

\* process_large_file: the next result of executor.map, in submission order
NestCollectUnit(k) ==
    /\ nest.w[k].state = "running"
    /\ nest.w[k].pc = "collect"
    /\ LET u == nest.w[k].i + 1
           f == NestFile(k)
       IN  /\ nest.w[k].futures[u] = "done"
           /\ nest' = [nest EXCEPT !.w[k].i = u,
                                   !.w[k].batch = IF u = BatchEnd(f, nest.w[k].batch)
                                                  THEN u ELSE nest.w[k].batch,
                                   !.w[k].pc = IF u < BatchEnd(f, nest.w[k].batch)
                                               THEN "collect"
                                               ELSE IF u = Len(f.units) THEN "end"
                                               ELSE "submit"]
    /\ UNCHANGED <<nest_in, notNestVars>>

\* process_file writes and returns
NestFileFinish(k) ==
    /\ nest.w[k].state = "running"
    /\ nest.w[k].pc = "end"
    /\ nest' = [nest EXCEPT !.w[k].state = "done",
                            !.pc = IF nest.pc = "sequential" THEN "done" ELSE nest.pc]
    /\ UNCHANGED <<nest_in, notNestVars>>

\* for future in future_to_file: future.result(), in submission order
NestCollectFile ==
    /\ nest.pc = "collect"
    /\ nest.w[nest.i + 1].state = "done"
    /\ nest' = [nest EXCEPT !.i = nest.i + 1,
                            !.pc = IF nest.i + 1 = Len(nest_in.files) THEN "done"
                                   ELSE "collect"]
    /\ UNCHANGED <<nest_in, notNestVars>>

NextNest ==
    \/ NestList
    \/ NestSequentialStart
    \/ NestCollectFile
    \/ \E k \in DOMAIN nest.w : NestFileStart(k)
    \/ \E k \in DOMAIN nest.w : NestFileLoop(k)
    \/ \E k \in DOMAIN nest.w : NestSubmitBatch(k)
    \/ \E k \in DOMAIN nest.w : NestCollectUnit(k)
    \/ \E k \in DOMAIN nest.w : NestFileFinish(k)
    \/ \E k \in DOMAIN nest.w : \E u \in DOMAIN nest.w[k].futures : NestUnitStart(k, u)
    \/ \E k \in DOMAIN nest.w : \E u \in DOMAIN nest.w[k].futures : NestUnitFinish(k, u)

SpecNest == InitNest /\ [][NextNest]_vars

---------------------------------------------------------------------------
(* Claims about the number of threads                                      *)

\* the file workers that run their file themselves (a file worker that waits
\* for its unit pool is not counted)
BusyFileWorkers ==
    Cardinality({k \in DOMAIN nest.w :
                    nest.w[k].state = "running" /\ nest.w[k].pc \in {"loop", "end"}})

\* the unit workers that run process_unit
RECURSIVE BusyUnitWorkers(_)
BusyUnitWorkers(k) ==
    IF k = 0 THEN 0 ELSE CountIn(nest.w[k].futures, "running") + BusyUnitWorkers(k - 1)

\* C15: at every moment of a process_directory run the number of concurrently
\* running worker threads, counting the per-file pool and the per-unit pools
\* started inside process_large_file, is at most the core count.
C15_ThreadsWithinCoreCount ==
    BusyFileWorkers + BusyUnitWorkers(Len(nest.w)) <= nest_in.cpu_count

---------------------------------------------------------------------------
(* The site id of a file and write_output_files                            *)

\* the positions lo..hi of s that hold a newline, in ascending order
RECURSIVE NewlinesIn(_, _, _)
NewlinesIn(s, lo, hi) ==
    IF lo > hi THEN <<>>
    ELSE IF lo = hi THEN (IF SubSeq(s, lo, lo) = "\n" THEN <<lo>> ELSE <<>>)
    ELSE NewlinesIn(s, lo, (lo + hi) \div 2) \o NewlinesIn(s, ((lo + hi) \div 2) + 1, hi)

\* content.split('\n') of a text of many lines
SplitNewline(s) ==
    LET nl == NewlinesIn(s, 1, Len(s))
        n == Len(nl)
        at(k) == IF k = 0 THEN 0 ELSE IF k = n + 1 THEN Len(s) + 1 ELSE nl[k]
    IN  [k \in 1..(n + 1) |-> SubSeq(s, at(k - 1) + 1, at(k) - 1)]

\* text.splitlines() of a text of many lines whose only line break is '\n'
SplitlinesLong(s) ==
    LET p == SplitNewline(s)
    IN  IF p[Len(p)] = "" THEN SubSeq(p, 1, Len(p) - 1) ELSE p

\* s.lstrip('0')
RECURSIVE LStripZeros(_)
LStripZeros(s) ==
    IF Len(s) > 0 /\ SubSeq(s, 1, 1) = "0" THEN LStripZeros(SubSeq(s, 2, Len(s))) ELSE s

\* the digits at the start of s: group 1 of (\d+) matched at the start of s
RECURSIVE LeadingDigits(_)
LeadingDigits(s) ==
    IF Len(s) > 0 /\ IsDigitAt(s, 1)
    THEN SubSeq(s, 1, 1) \o LeadingDigits(SubSeq(s, 2, Len(s)))
    ELSE ""

\* the digits at the end of s, for S(\d+)\.txt$
RECURSIVE TrailingDigits(_)
TrailingDigits(s) ==
    IF Len(s) > 0 /\ IsDigitAt(s, Len(s))
    THEN TrailingDigits(SubSeq(s, 1, Len(s) - 1)) \o SubSeq(s, Len(s), Len(s))
    ELSE ""

\* find_site_id: the first line among lines[100:251] that, stripped, matches
\* ^SITE:(\d+), else 'unknown'
find_site_id(content) ==
    LET lines == SplitNewline(content)
        hits == {k \in 101..Min2(251, Len(lines)) :
                    /\ StartsWith(Strip(lines[k]), "SITE:")
                    /\ LeadingDigits(SliceFrom(Strip(lines[k]), 5)) # ""}
    IN  IF hits = {} THEN "unknown"
        ELSE LStripZeros(LeadingDigits(SliceFrom(Strip(lines[MinOf(hits)]), 5)))

\* process_large_file: the first of the first 250 lines of the first 10000
\* bytes that starts with 'SITE:' and has a non-empty id after it; else the
\* digits of S<digits>.txt at the end of the path; else "1"
large_site_id(content, file_path) ==
    LET lines == SplitlinesLong(Slice(content, 0, 10000))
        hits == {k \in 1..Min2(250, Len(lines)) :
                    /\ StartsWith(lines[k], "SITE:")
                    /\ LStripZeros(Strip(SliceFrom(lines[k], 5))) # ""}
        stem == Slice(file_path, 0, Len(file_path) - 4)
    IN  IF hits # {} THEN LStripZeros(Strip(SliceFrom(lines[MinOf(hits)], 5)))
        ELSE IF /\ EndsWith(file_path, ".txt")
                /\ TrailingDigits(stem) # ""
                /\ EndsWith(Slice(stem, 0, Len(stem) - Len(TrailingDigits(stem))), "S")
             THEN TrailingDigits(stem)
             ELSE "1"

\* output_file = f"{unit_id}_SITE{site_id}_DUT{dut_id}.txt"
output_file(unit_id, site_id, dut_id) ==
    unit_id \o "_SITE" \o site_id \o "_DUT" \o dut_id \o ".txt"

\* the three characters of the header of a short record (not ASCII in the
\* source: they read 'status line')
StatusHeaderWord == "STL"

\* what write_output_files writes into the file of one record
FileBody(dut_id, content) ==
    IF Len(content) > 200 THEN content
    ELSE "DUT[" \o dut_id \o "] " \o StatusHeaderWord \o ":\n" \o content \o "\n"

\* the loop over dut_dict without its test 'if content is not None'
WriteResultEveryDut(fs, result, site_id) ==
    LET written == DOMAIN result.duts
        names == {output_file(result.unit_id, site_id, d) : d \in written}
        DutOf(nm) == CHOOSE d \in written : output_file(result.unit_id, site_id, d) = nm
    IN  [nm \in (DOMAIN fs) \cup names |->
            IF nm \in names
            THEN (IF result.duts[DutOf(nm)] = None THEN FileBody(DutOf(nm), "")
                  ELSE FileBody(DutOf(nm), result.duts[DutOf(nm)][1]))
            ELSE fs[nm]]

\* the file system after the files of one result {unit_id: dut_dict} are written
WriteResult(fs, result, site_id) ==
    LET written == {d \in DOMAIN result.duts : result.duts[d] # None}
        names == {output_file(result.unit_id, site_id, d) : d \in written}
        DutOf(nm) == CHOOSE d \in written : output_file(result.unit_id, site_id, d) = nm
    IN  [nm \in (DOMAIN fs) \cup names |->
            IF nm \in names THEN FileBody(DutOf(nm), result.duts[DutOf(nm)][1]) ELSE fs[nm]]

\* write_output_files(results, output_dir, site_id) on the files of output_dir
RECURSIVE write_output_files(_, _, _)
write_output_files(fs, results, site_id) ==
    IF Len(results) = 0 THEN fs
    ELSE write_output_files(WriteResult(fs, Head(results), site_id), Tail(results), site_id)

---------------------------------------------------------------------------
(* process_file from its file to its artifacts: the site id, the units,    *)
(* process_test_unit on each unit, write_output_files.  log.large says     *)
(* that the size of the file is over self.large_file_threshold, which      *)
(* sends it to process_large_file; with up to three units the batches of   *)
(* its unit pool hold one unit each (batch_size = n // max_workers = 1),   *)
(* so its units are read in turn.                                          *)

MaxLogUnits == 2

\* a passing DUT01 with one CDT block
PassUnit == UnitText(TRUE, <<"1">>, TRUE, <<"DUT1 -- soft bin 0x0\n">>, TRUE)

\* a failing DUT02 with one CDT block
FailUnit ==
    UnitText(TRUE, <<"2">>, TRUE,
             <<"DUT02 -- soft bin 0xffffffff -- hard bin 7 -- fail_functional\n">>, TRUE)

\* a passing DUT03 with a status line and no CDT section
StatusOnlyUnit == UnitText(FALSE, <<>>, FALSE, <<"DUT3 -- soft bin 0x0\n">>, TRUE)

\* a passing DUT04 with a long status line and no CDT section
LongStatusUnit ==
    UnitText(FALSE, <<>>, FALSE,
             <<"DUT4 -- soft bin 0x0 -- " \o Repeat("note ", 40) \o "\n">>, TRUE)

\* a passing DUT05 with one CDT block of thirty data lines
LongPassUnit ==
    "Start_of_Test -----\nTestBlock = tb_MacawCdtMtstTest :\n"
    \o "DUT[5] CDT log info:\n[CDT log] :~~\n" \o Repeat("X:1 Y:2\n", 30)
    \o block_end_marker \o "\n"
    \o "TestItem:tb_MacawCdtMtstTest Test Time: 1.5 s\nDUT5 -- soft bin 0x0\n"
    \o "Execution time: 12.5 s"

LogUnits == {PassUnit, FailUnit, StatusOnlyUnit, LongStatusUnit, LongPassUnit}

\* what precedes the units: nothing, a SITE line on line 100 (inside the
\* window of find_site_id), a SITE line on line 0 (outside it), a SITE line
\* of zeros
LogHeaders ==
    {"", Repeat("\n", 100) \o "SITE:03\n", "SITE:03\n", Repeat("\n", 100) \o "SITE:0\n"}

LogNames == {"a.txt", "a_S7.txt"}

LogText(header, units) == header \o Concat([k \in 1..Len(units) |-> units[k] \o "\n"])

InitWrite ==
    /\ \E header \in LogHeaders, units \in SeqsUpTo(LogUnits, MaxLogUnits),
          name \in LogNames, large \in BOOLEAN, output_dir \in BOOLEAN :
        \* the small path never reads the name
        /\ ~large => name = "a.txt"
        \* without an output directory no site id reaches a file name
        /\ ~output_dir => header = ""
        /\ log = [name |-> name, text |-> LogText(header, units), large |-> large,
                  output_dir |-> output_dir]
    /\ wr = WrStart
    /\ IdleUnit
    /\ IdleClean
    /\ IdleSeg
    /\ IdleFile
    /\ IdleDir
    /\ IdleMmap
    /\ IdleNest
    /\ IdleOut
    /\ IdleProg
    /\ IdleBytes

\* process_file: validate_input_file raises on a file under 100 bytes and
\* the handler of process_file returns 0
WrValidate ==
    /\ wr.pc = "validate"
    /\ wr' = IF Len(log.text) < 100
             THEN [wr EXCEPT !.pc = "done", !.ret = 0]
             ELSE [wr EXCEPT !.pc = "site"]
    /\ UNCHANGED <<log, notWriteVars>>

\* process_file: site_id = self.find_site_id(content)
WrFindSiteId ==
    /\ wr.pc = "site"
    /\ ~log.large
    /\ wr' = [wr EXCEPT !.pc = "units", !.site_id = find_site_id(log.text)]
    /\ UNCHANGED <<log, notWriteVars>>

\* process_large_file: the SITE line of the header, the file name, or "1"
WrLargeSiteId ==
    /\ wr.pc = "site"
    /\ log.large
    /\ wr' = [wr EXCEPT !.pc = "units", !.site_id = large_site_id(log.text, log.name)]
    /\ UNCHANGED <<log, notWriteVars>>

\* the units of the file, by the segmenter of its path
WrFindUnits ==
    /\ wr.pc = "units"
    /\ wr' = [wr EXCEPT !.pc = "loop",
                        !.units = IF log.large THEN LargeUnitPositions(log.text)
                                  ELSE SmallUnitPairs(log.text)]
    /\ UNCHANGED <<log, notWriteVars>>

\* one turn of the unit loop: process_test_unit(unit_content, site_id,
\* file_path, f"TD{i+1}"), appended to results unless it is None
WrProcessUnit ==
    /\ wr.pc = "loop"
    /\ wr.i < Len(wr.units)
    /\ LET unit == wr.units[wr.i + 1]
           unit_result == process_test_unit(Slice(log.text, unit[1], unit[2]))
       IN  wr' = [wr EXCEPT !.i = wr.i + 1,
                            !.results = IF unit_result.none THEN wr.results
                                        ELSE Append(wr.results,
                                                    [unit_id |-> "TD" \o NatStr(wr.i + 1),
                                                     duts |-> unit_result.duts])]
    /\ UNCHANGED <<log, notWriteVars>>

\* after the loop: if output_dir and results: write_output_files(...);
\* return len(results)
WrWriteOutput ==
    /\ wr.pc = "loop"
    /\ wr.i = Len(wr.units)
    /\ wr' = IF log.output_dir /\ Len(wr.results) > 0
             THEN [wr EXCEPT !.pc = "done", !.ret = Len(wr.results), !.wrote = TRUE,
                             !.fs = write_output_files(wr.fs, wr.results, wr.site_id)]
             ELSE [wr EXCEPT !.pc = "done", !.ret = Len(wr.results)]
    /\ UNCHANGED <<log, notWriteVars>>

NextWrite ==
    \/ WrValidate
    \/ WrFindSiteId
    \/ WrLargeSiteId
    \/ WrFindUnits
    \/ WrProcessUnit
    \/ WrWriteOutput

SpecWrite == InitWrite /\ [][NextWrite]_vars

\* the duts of a result whose content is not None
NonNullDuts(result) == {d \in DOMAIN result.duts : result.duts[d] # None}

\* the (unit, dut) pairs of the unit results whose content is not None
NonNullPairs ==
    UNION {{<<wr.results[k].unit_id, d>> : d \in NonNullDuts(wr.results[k])} :
            k \in 1..Len(wr.results)}

\* the file names of those pairs under an id for the site
ArtifactNames(site_id) ==
    {output_file(pair[1], site_id, pair[2]) : pair \in NonNullPairs}

\* a file of two units: a passing DUT01 with one CDT block, then a failing DUT02
IsScenario == \E header \in LogHeaders : log.text = LogText(header, <<PassUnit, FailUnit>>)

\* C11: for one processed file with an output directory, the artifacts written
\* are exactly one file {unit_id}_SITE{site_id}_DUT{dut_id}.txt for each
\* (unit, dut) pair whose content in the unit results is not None, and nothing
\* else; the file of a passing DUT01 in unit 1 and a fail_functional DUT02 in
\* unit 2 yields exactly TD1_SITE<id>_DUT01.txt.
C11_ArtifactsAreNonNullPairs ==
    (wr.pc = "done" /\ log.output_dir) =>
        /\ DOMAIN wr.fs = ArtifactNames(wr.site_id)
        /\ Cardinality(DOMAIN wr.fs) = Cardinality(NonNullPairs)
        /\ IsScenario => DOMAIN wr.fs = {"TD1_SITE" \o wr.site_id \o "_DUT01.txt"}

\* the scenario has been written out, and so has a file with two artifacts
C11_Witness ==
    /\ wr.pc = "done" /\ log.output_dir /\ wr.wrote
    /\ IsScenario
    /\ DOMAIN wr.fs = {"TD1_SITE" \o wr.site_id \o "_DUT01.txt"}
    /\ Len(wr.results) = 1
    /\ \E d \in DOMAIN wr.results[1].duts : wr.results[1].duts[d] = None

\* a file with two units has left two artifacts
C11_TwoArtifacts == wr.pc = "done" /\ Cardinality(DOMAIN wr.fs) = 2

\* the file has no SITE header line
NoSiteHeader == ~Contains(log.text, "SITE:")

\* the site id of the run has been resolved
SiteResolved == wr.pc \in {"units", "loop", "done"}

\* C12: when a file has no SITE header line, the resolved site id is one fixed
\* fallback value, the same on the small path (find_site_id) and on the large
\* path (process_large_file), and it is in every artifact file name of the run.
C12_OneFallbackSiteId ==
    (NoSiteHeader /\ SiteResolved) =>
        /\ find_site_id(log.text) = large_site_id(log.text, log.name)
        /\ wr.site_id = find_site_id(log.text)
        /\ \A nm \in DOMAIN wr.fs : Contains(nm, "_SITE" \o wr.site_id \o "_DUT")

\* the body of the artifact of a (unit, dut) pair of the results
ArtifactBody(pair) == wr.fs[output_file(pair[1], wr.site_id, pair[2])]

\* the content of a (unit, dut) pair of the results
RecordContent(pair) ==
    LET result == CHOOSE r \in {wr.results[k] : k \in 1..Len(wr.results)} : r.unit_id = pair[1]
    IN  result.duts[pair[2]][1]

\* the wrapped format: the header of a status-line-only record, the content, a newline
Wrapped(dut_id, content) ==
    "DUT[" \o dut_id \o "] " \o StatusHeaderWord \o ":\n" \o content \o "\n"

\* the record is a status line and nothing else: it has no CDT content
StatusLineOnly(pair) ==
    /\ StartsWith(RecordContent(pair), "DUT" \o pair[2] \o " -- soft bin 0x")
    /\ ~Contains(RecordContent(pair), "\n")

\* C13: write_output_files writes the content of a record verbatim exactly
\* when it is longer than 200 characters and wraps it with the header of a
\* status-line-only record otherwise; every record that is only a status line
\* is written wrapped and its body is at most 200 characters long.
C13_VerbatimIffLong ==
    (wr.pc = "done" /\ wr.wrote) =>
        \A pair \in NonNullPairs :
            /\ Len(RecordContent(pair)) > 200 <=> ArtifactBody(pair) = RecordContent(pair)
            /\ Len(RecordContent(pair)) <= 200 =>
                    ArtifactBody(pair) = Wrapped(pair[2], RecordContent(pair))
            /\ StatusLineOnly(pair) =>
                    /\ ArtifactBody(pair) = Wrapped(pair[2], RecordContent(pair))
                    /\ Len(RecordContent(pair)) <= 200

---------------------------------------------------------------------------
(* process_directory with its pool of file workers, seen from the output   *)
(* directory: every worker runs process_file, whose last step is           *)
(* write_output_files on its own results: open(file_path, 'w'), the        *)
(* writes, the close at the end of the with block.  A file of the          *)
(* directory is given by the site id and the results process_file computes *)
(* for it.  What is written stays in the buffer of the file object until   *)
(* the close (the bodies are shorter than the buffer) and is then put at   *)
(* the position of the file object, which is 0.                            *)

MaxOutFiles == 3

OutFile(name, site_id, results) == [name |-> name, site_id |-> site_id, results |-> results]

\* a result {unit_id: {dut_id: content}} with one DUT
OneDut(unit_id, dut_id, content) ==
    [unit_id |-> unit_id, duts |-> [d \in {dut_id} |-> Some(content)]]

\* two files of the same site whose first unit has a passing DUT01, and a file
\* of another site with two units
OutFiles ==
    {OutFile("a.txt", "1", <<OneDut("TD1", "01", "DUT01 -- soft bin 0x0 -- hard bin 1")>>),
     OutFile("b.txt", "1", <<OneDut("TD1", "01", "DUT01 -- soft bin 0x0")>>),
     OutFile("c.txt", "2", <<OneDut("TD1", "01", "DUT01 -- soft bin 0x0"),
                             OneDut("TD2", "02", "DUT02 -- soft bin 0x0")>>)}

\* the files write_output_files opens for one file of the directory, in order:
\* the path and the body of each
Artifacts(f) ==
    [k \in 1..Len(f.results) |->
        LET dut_id == CHOOSE d \in DOMAIN f.results[k].duts : TRUE
        IN  [path |-> output_file(f.results[k].unit_id, f.site_id, dut_id),
             body |-> FileBody(dut_id, f.results[k].duts[dut_id][1])]]

\* a file worker that has not started, with no file object
OutWorkerStart == [state |-> "queued", a |-> 0, handle |-> None, written |-> FALSE]

\* the directories: files of different names, in the order of the walk
InitOut ==
    /\ \E files \in SeqsUpTo(OutFiles, MaxOutFiles), max_workers \in {0, 1},
          cpu_count \in 1..MaxCpu :
        /\ \A j, k \in 1..Len(files) : j # k => files[j].name # files[k].name
        /\ out_in = [files |-> files, max_workers |-> max_workers, cpu_count |-> cpu_count]
        /\ ow = [pc |-> "list", disk |-> [nm \in {} |-> ""],
                 w |-> [k \in 1..Len(files) |-> OutWorkerStart]]
    /\ IdleUnit
    /\ IdleClean
    /\ IdleSeg
    /\ IdleFile
    /\ IdleDir
    /\ IdleMmap
    /\ IdleNest
    /\ IdleWrite
    /\ IdleProg
    /\ IdleBytes

\* the walk and use_parallel = total_files >= 2
OutList ==
    /\ ow.pc = "list"
    /\ ow' = [ow EXCEPT !.pc = IF Len(out_in.files) = 0 THEN "done"
                               ELSE IF Len(out_in.files) >= 2 THEN "pool"
                               ELSE "sequential"]
    /\ UNCHANGED <<out_in, notOutVars>>

\* a free thread of the executor takes the oldest submitted file
OutFileStart(k) ==
    /\ ow.pc = "pool"
    /\ ow.w[k].state = "queued"
    /\ \A j \in DOMAIN ow.w : ow.w[j].state = "queued" => k <= j
    /\ Cardinality({j \in DOMAIN ow.w : ow.w[j].state = "running"}) < FileWorkers(out_in)
    /\ ow' = [ow EXCEPT !.w[k].state = "running"]
    /\ UNCHANGED <<out_in, notOutVars>>

\* the sequential mode: process_file for the only file, in the calling thread
OutSequentialStart ==
    /\ ow.pc = "sequential"
    /\ ow.w[1].state = "queued"
    /\ ow' = [ow EXCEPT !.w[1].state = "running"]
    /\ UNCHANGED <<out_in, notOutVars>>

\* with open(file_path, 'w', encoding='utf-8') as f: the file is created or
\* cut to length 0
OutOpen(k) ==
    /\ ow.w[k].state = "running"
    /\ ow.w[k].handle = None
    /\ ow.w[k].a < Len(Artifacts(out_in.files[k]))
    /\ LET art == Artifacts(out_in.files[k])[ow.w[k].a + 1]
       IN  ow' = [ow EXCEPT !.w[k].handle = Some([path |-> art.path, buffer |-> ""]),
                            !.w[k].written = FALSE,
                            !.disk = [nm \in (DOMAIN ow.disk) \cup {art.path} |->
                                        IF nm = art.path THEN "" ELSE ow.disk[nm]]]
    /\ UNCHANGED <<out_in, notOutVars>>

\* the f.write calls of the with block, into the buffer of the file object
OutWrite(k) ==
    /\ ow.w[k].state = "running"
    /\ ow.w[k].handle # None
    /\ ~ow.w[k].written
    /\ LET art == Artifacts(out_in.files[k])[ow.w[k].a + 1]
       IN  ow' = [ow EXCEPT !.w[k].handle = Some([path |-> art.path, buffer |-> art.body]),
                            !.w[k].written = TRUE]
    /\ UNCHANGED <<out_in, notOutVars>>

\* the end of the with block: the buffer goes to the file from position 0 on,
\* over what the file holds there, and the file object is closed
OutClose(k) ==
    /\ ow.w[k].state = "running"
    /\ ow.w[k].handle # None
    /\ ow.w[k].written
    /\ LET h == ow.w[k].handle[1]
       IN  ow' = [ow EXCEPT !.w[k].handle = None, !.w[k].a = ow.w[k].a + 1,
                            !.disk[h.path] = h.buffer \o SliceFrom(ow.disk[h.path], Len(h.buffer))]
    /\ UNCHANGED <<out_in, notOutVars>>

\* write_output_files and process_file return
OutFileFinish(k) ==
    /\ ow.w[k].state = "running"
    /\ ow.w[k].handle = None
    /\ ow.w[k].a = Len(Artifacts(out_in.files[k]))
    /\ ow' = [ow EXCEPT !.w[k].state = "finished"]
    /\ UNCHANGED <<out_in, notOutVars>>

\* every future has been collected (or the only file is done): process_directory returns
OutReturn ==
    /\ ow.pc \in {"pool", "sequential"}
    /\ \A k \in DOMAIN ow.w : ow.w[k].state = "finished"
    /\ ow' = [ow EXCEPT !.pc = "done"]
    /\ UNCHANGED <<out_in, notOutVars>>

NextOut ==
    \/ OutList
    \/ \E k \in DOMAIN ow.w : OutFileStart(k)
    \/ OutSequentialStart
    \/ \E k \in DOMAIN ow.w : OutOpen(k)
    \/ \E k \in DOMAIN ow.w : OutWrite(k)
    \/ \E k \in DOMAIN ow.w : OutClose(k)
    \/ \E k \in DOMAIN ow.w : OutFileFinish(k)
    \/ OutReturn

SpecOut == InitOut /\ [][NextOut]_vars

\* the file workers that have a file object open on a path
OpenOn(path) ==
    {k \in DOMAIN ow.w : ow.w[k].handle # None /\ ow.w[k].handle[1].path = path}

\* the output directory after the files are processed one after the other, in
\* the order of their submission
RECURSIVE InOrder(_, _)
InOrder(fs, files) ==
    IF Len(files) = 0 THEN fs
    ELSE InOrder(write_output_files(fs, Head(files).results, Head(files).site_id), Tail(files))

\* C16: in a process_directory run with the file pool, no two threads have
\* the same artifact path open for writing at the same time, and the final
\* content of every artifact does not depend on the interleaving of the file
\* workers (it is what the files written one after the other leave), also
\* when two input files yield the same (unit id, site id, dut id) name.
C16_NoWriterRace ==
    /\ \A k \in DOMAIN ow.w :
            ow.w[k].handle # None => OpenOn(ow.w[k].handle[1].path) = {k}
    /\ ow.pc = "done" => ow.disk = InOrder([nm \in {} |-> ""], out_in.files)

---------------------------------------------------------------------------
(* The extension test of the directory walk against that of the validation *)

\* the extension check of validate_input_file: file_path.endswith('.txt')
ExtensionAccepted(file_path) == EndsWith(file_path, ".txt")

\* C29: every file that process_directory enumerates as eligible passes the
\* extension check of validate_input_file: the filter of the walk and the
\* validation agree on the extension, also for names whose extension is in
\* upper or mixed case, so no enumerated file is rejected on its extension.
C29_EnumeratedFilesAccepted ==
    \A k \in 1..Len(pd.txt_files) :
        ExtensionAccepted(dir_in.files[pd.txt_files[k]].name)

---------------------------------------------------------------------------
(* The lines clean_cdt_log returns                                         *)

\* a DUT header line: DUT[n] CDT log info:
IsDutHeaderLine(line) == StartsWith(line, "DUT[") /\ Contains(line, "] CDT log info:")

\* what a line of the cleaned content has to be
DataLine(line) ==
    /\ line = Strip(line)
    /\ line # ""
    /\ line # "[CDT log] :~~"
    /\ ~IsDutHeaderLine(line)
    /\ ~Contains(line, "[STlog]")
    /\ ~ContainsNul(line)
    /\ ~\E literal \in SKIP_PATTERNS : Contains(line, literal)
    /\ (HasAlnum(line) \/ \E literal \in KEEP_PATTERNS : Contains(line, literal))

\* the lines of the returned content; none when None is returned
CleanedLines == IF cleaned.value = None THEN <<>> ELSE Split(cleaned.value[1])

\* the lines of the block that lie before the span that is cut out, or all
\* its lines when nothing is cut out
LinesOutsideSpan ==
    LET emmc_start == Find(block_content, "EMMC Transport: SingleBlock Read", 0)
    IN  IF emmc_start = -1 THEN Split(block_content)
        ELSE Split(Slice(block_content, 0, emmc_start))

\* C23: every line of the content clean_cdt_log returns is trimmed and not
\* blank, is not '[CDT log] :~~', is not a DUT header line, contains no
\* '[STlog]', no 'nul' in any case, none of the skip literals, and has an
\* alphanumeric character or a keep literal; and a line of the input that is
\* all of this is never dropped.
C23_CleanedLinesAreData ==
    (block_content # "" /\ cleaned.called) =>
        /\ \A i \in 1..Len(CleanedLines) : DataLine(CleanedLines[i])
        /\ \A k \in 1..Len(LinesOutsideSpan) :
                DataLine(Strip(LinesOutsideSpan[k])) =>
                    \E i \in 1..Len(CleanedLines) :
                        CleanedLines[i] = FormatStatusLine(Strip(LinesOutsideSpan[k]))

\* the block with the span from the first character of 'EMMC Transport:
\* SingleBlock Read' through the last character of the terminator that follows
\* it taken out, and nothing else
ExactSpanRemoved(content) ==
    LET emmc_start == Find(content, "EMMC Transport: SingleBlock Read", 0)
        property_end == Find(content, block_end_marker, emmc_start)
    IN  Slice(content, 0, emmc_start)
        \o SliceFrom(content, property_end + Len(block_end_marker))

\* the block holds 'EMMC Transport: SingleBlock Read' and, later, the terminator
HasEmmcSpan(content) ==
    /\ Find(content, "EMMC Transport: SingleBlock Read", 0) # -1
    /\ Find(content, block_end_marker,
            Find(content, "EMMC Transport: SingleBlock Read", 0)) # -1

---------------------------------------------------------------------------
(* The window of process_test_unit in which status lines are looked for    *)

\* the windows the status lines may come from: the 30 lines before a line
\* with 'Execution time:' when the unit has such a line, else its last 30
\* lines, or all its lines if they are fewer
StatusWindows(unit_lines) ==
    LET n == Len(unit_lines)
        marked == {i \in 1..n : Contains(unit_lines[i], "Execution time:")}
    IN  IF marked # {} THEN {SubSeq(unit_lines, Max2(1, i - 30), i - 1) : i \in marked}
        ELSE {SubSeq(unit_lines, Max2(1, n - 29), n)}

\* the dut id -> content mapping that the status lines of a window give
StatusDict(window) == ScanStatus([lines |-> <<>>, dict |-> InitialDutDict], window).dict

\* C25: the status lines process_test_unit considers are exactly those among
\* the 30 lines before an 'Execution time:' line when the unit has such a line
\* anywhere, and otherwise those among its last 30 lines (all lines if fewer);
\* a status line outside that window never affects the result.  For a unit
\* without CDT section the result is what the status lines of the window give.
C25_StatusWindow ==
    (unit_results.called /\ ~Contains(unit_content, "TestBlock = tb_MacawCdtMtstTest :")) =>
        \E window \in StatusWindows(Splitlines(unit_content)) :
            /\ \A k \in DOMAIN StatusDict(window) :
                    StatusDict(window)[k] # None =>
                        (~unit_results.none /\ unit_results.duts[k] = StatusDict(window)[k])
            /\ \A k \in DOMAIN unit_results.duts :
                    unit_results.duts[k] # None => StatusDict(window)[k] = unit_results.duts[k]

---------------------------------------------------------------------------
(* The content process_test_unit assembles for a dut                       *)

\* the CDT section of the unit being processed; "" when it has none
CdtSection ==
    LET cdt_start == Find(unit_content, "TestBlock = tb_MacawCdtMtstTest :", 0)
        cdt_end == Find(unit_content, "TestItem:tb_MacawCdtMtstTest Test Time:", cdt_start)
    IN  IF cdt_start = -1 THEN ""
        ELSE IF cdt_end = -1 THEN SliceFrom(unit_content, cdt_start)
        ELSE Slice(unit_content, cdt_start, cdt_end)

\* the raw blocks of a section in the order they appear: from 'DUT[' through
\* the next terminator
RECURSIVE RawBlocksFrom(_, _)
RawBlocksFrom(section, pos) ==
    LET start_pos == Find(section, "DUT[", pos)
        end_pos == IF start_pos = -1 THEN -1 ELSE Find(section, block_end_marker, start_pos)
    IN  IF start_pos = -1 \/ end_pos = -1 THEN <<>>
        ELSE <<Slice(section, start_pos, end_pos + Len(block_end_marker))>>
             \o RawBlocksFrom(section, end_pos + Len(block_end_marker))

\* the 2-digit dut id of a raw block 'DUT[n] ...'
RawBlockDutId(block) == Fmt02d(DigitsValue(Slice(block, 4, Find(block, "]", 0))))

\* the raw blocks of the unit, and what clean_cdt_log makes of each
RawBlocks == RawBlocksFrom(CdtSection, 0)

CleanedRawBlocks == [i \in 1..Len(RawBlocks) |-> clean_cdt_log(RawBlocks[i])]

\* the cleaned blocks of a dut that are not empty, in the order of their raw
\* blocks, given the raw blocks and their cleaned texts
CleanedBlocksOf(dut_id, raw, cleaned_raw) ==
    LET Pick[i \in 0..Len(raw)] ==
            IF i = 0 THEN <<>>
            ELSE IF RawBlockDutId(raw[i]) = dut_id /\ cleaned_raw[i] # None
                 THEN Append(Pick[i - 1], cleaned_raw[i][1])
                 ELSE Pick[i - 1]
    IN  Pick[Len(raw)]

\* the status lines of a dut (1..24) in a window, as positions in it
StatusLinesOf(dut_id, window) ==
    {i \in 1..Len(window) :
        /\ IsStatusLine(window[i])
        /\ StatusDutId(window[i]) = dut_id
        /\ dut_id \in {Fmt02d(d) : d \in 1..24}}

MarkedFailed(dut_id, window) ==
    \E i \in StatusLinesOf(dut_id, window) : Contains(window[i], "fail_functional")

\* the header line, the cleaned blocks joined by newlines, then the status line
\* that was found last, with its dut id in two digits
AssembledContent(dut_id, blocks, window) ==
    LET body == Join(<<"DUT[" \o dut_id \o "] CDT log info:">> \o blocks)
        found == StatusLinesOf(dut_id, window)
        last == CHOOSE i \in found : \A j \in found : j <= i
    IN  IF found = {} THEN body
        ELSE body \o "\n" \o "DUT" \o dut_id
             \o SliceFrom(window[last], Find(window[last], status_line_marker, 0))

---------------------------------------------------------------------------
(* The batches of the unit pool of process_large_file                      *)

\* the pool of process_large_file runs for the file
PoolRuns == pf.futures # <<>>

\* w = min(core count, k, 8) for the k units of the file
PoolThreads == Min2(Min2(CpuOr4(file_in.cpu_count), Len(file_in.units)), 8)

\* max(1, k div w)
UnitsPerBatch == Max2(1, Len(file_in.units) \div PoolThreads)

\* the number (from 0) of the batch a unit (from 1) belongs to
BatchOf(u) == (u - 1) \div UnitsPerBatch

\* the units handed to the pool so far
Submitted == {u \in DOMAIN pf.futures : pf.futures[u] # "new"}

\* the units handed to the pool are the first batches, whole
WholeBatches ==
    \A u \in Submitted : \A v \in DOMAIN pf.futures : BatchOf(v) <= BatchOf(u) => v \in Submitted

\* a unit is handed to the pool only when every unit of the batches before its
\* own has finished and its result has been collected
BatchBarrier ==
    \A u \in Submitted : \A v \in DOMAIN pf.futures :
        BatchOf(v) < BatchOf(u) => (pf.futures[v] = "done" /\ v <= pf.i)

\* at most min(w, max(1, k div w)) units are being processed
InFlightBound == CountIn(pf.futures, "running") <= Min2(PoolThreads, UnitsPerBatch)

\* a result is collected for the unit after the one collected last
CollectedAscending ==
    (PoolRuns /\ pf'.results # pf.results) => (pf'.i = pf.i + 1 /\ pf.futures[pf'.i] = "done")

\* C27: on the large path with k > 1 units and a pool of w = min(core count, k, 8)
\* threads, the units go to the pool in consecutive batches of max(1, k div w)
\* units with a barrier between the batches, at most min(w, max(1, k div w))
\* units are in flight at a time, and the results are collected in ascending
\* unit order whatever order the workers finish in.
C27_BatchedPool ==
    /\ [](PoolRuns => (WholeBatches /\ BatchBarrier /\ InFlightBound))
    /\ [][CollectedAscending]_vars

\* the second batch of a file of four units is in the pool, its second unit
\* has finished before its first, and the results of the first batch have been
\* collected
C27_Witness ==
    /\ PoolRuns
    /\ Len(file_in.units) = 4
    /\ UnitsPerBatch = 2
    /\ pf.i = 2
    /\ pf.results = 2
    /\ pf.futures[3] = "running"
    /\ pf.futures[4] = "done"

---------------------------------------------------------------------------
(* The progress reports of process_large_file                              *)

MaxProgBlocks == 3

MaxProgUnits == 3

\* what can raise in process_large_file besides a unit
ProgFaults == {"none", "open", "mmap", "scan", "write"}

\* large files: the number of windows of the scan (total_blocks), the outcome
\* of process_unit for every unit, os.cpu_count() (0 for None), whether an
\* output directory and a progress callback are given
ProgFiles ==
    {[blocks |-> b, units |-> us, cpu_count |-> cpu, output_dir |-> od, fault |-> ft,
      callback |-> cb] :
        b \in 1..MaxProgBlocks, us \in SeqsUpTo(UnitOutcomes, MaxProgUnits), cpu \in 0..2,
        od \in BOOLEAN, ft \in ProgFaults, cb \in BOOLEAN}

InitProg ==
    /\ prog_in \in ProgFiles
    /\ pg = PgStart
    /\ IdleUnit
    /\ IdleClean
    /\ IdleSeg
    /\ IdleFile
    /\ IdleDir
    /\ IdleMmap
    /\ IdleNest
    /\ IdleWrite
    /\ IdleOut
    /\ IdleBytes

\* if progress_callback: progress_callback(percent, ...)
Report(st, percent) ==
    IF prog_in.callback THEN [st EXCEPT !.percents = Append(@, percent)] ELSE st

\* the percents the callback has received when the handler of
\* process_large_file has run: it logs and returns 0, and a handler that
\* reports completion instead
HandlerPercentsComplete(reported) == Append(reported, 100)

HandlerPercents(reported) == reported

\* except Exception as e: ... return 0
PgExcept(st) ==
    [st EXCEPT !.pc = "done", !.handler = TRUE, !.ret = 0,
               !.percents = HandlerPercents(st.percents)]

\* find_markers: progress = 20 + int(40 * i / total_blocks)
ScanPercent(i, blocks) == 20 + (40 * i) \div blocks

\* the batches of the pool: progress = 60 + int(35 * min(i + batch_size, n) / n)
BatchPercent(i, size, n) == 60 + (35 * Min2(i + size, n)) \div n

\* the loop over the units: progress = 60 + int(35 * (i + 1) / n)
LoopPercent(i, n) == 60 + (35 * (i + 1)) \div n

\* open(file_path, 'rb') and the first report
PgOpen ==
    /\ pg.pc = "open"
    /\ pg' = IF prog_in.fault = "open" THEN PgExcept(pg)
             ELSE [Report(pg, 5) EXCEPT !.pc = "mmap"]
    /\ UNCHANGED <<prog_in, notProgVars>>

\* mmap.mmap(...) and its report
PgMmap ==
    /\ pg.pc = "mmap"
    /\ pg' = IF prog_in.fault = "mmap" THEN PgExcept(pg)
             ELSE [Report(pg, 10) EXCEPT !.pc = "site"]
    /\ UNCHANGED <<prog_in, notProgVars>>

\* the search for the site id in the header, its report, and the fallbacks
PgSite ==
    /\ pg.pc = "site"
    /\ pg' = [Report(pg, 15) EXCEPT !.pc = "scan", !.i = 0]
    /\ UNCHANGED <<prog_in, notProgVars>>

\* find_markers: one window, reported before it is read
PgScanBlock ==
    /\ pg.pc = "scan"
    /\ LET st == Report(pg, ScanPercent(pg.i, prog_in.blocks))
       IN  pg' = IF prog_in.fault = "scan" THEN PgExcept(st)
                 ELSE [st EXCEPT !.i = IF pg.i + 1 = prog_in.blocks THEN 0 ELSE pg.i + 1,
                                 !.pc = IF pg.i + 1 = prog_in.blocks THEN "pair" ELSE "scan"]
    /\ UNCHANGED <<prog_in, notProgVars>>

\* the pairing of the positions, its report, and the choice of how the units
\* are processed
PgPair ==
    /\ pg.pc = "pair"
    /\ pg' = [Report(pg, 60) EXCEPT
                 !.pc = IF Len(prog_in.units) > 1
                        THEN IF UnitWorkers(prog_in) > 1 THEN "batch" ELSE "loop"
                        ELSE IF Len(prog_in.units) = 1 THEN "single" ELSE "after"]
    /\ UNCHANGED <<prog_in, notProgVars>>

\* the units from..to-1 (0-based) that return a result
ResultsIn(units, from, to) ==
    Cardinality({u \in (from + 1)..to : units[u] = "result"})

\* one batch of the pool: executor.map over the batch, the results collected,
\* then the report; a unit that raises ends the call in the handler
PgBatch ==
    /\ pg.pc = "batch"
    /\ LET n == Len(prog_in.units)
           to == Min2(pg.i + batch_size(prog_in), n)
       IN  pg' = IF \E u \in (pg.i + 1)..to : prog_in.units[u] = "raise"
                 THEN PgExcept(pg)
                 ELSE [Report(pg, BatchPercent(pg.i, batch_size(prog_in), n)) EXCEPT
                          !.results = @ + ResultsIn(prog_in.units, pg.i, to),
                          !.i = pg.i + batch_size(prog_in),
                          !.pc = IF pg.i + batch_size(prog_in) >= n THEN "after" ELSE "batch"]
    /\ UNCHANGED <<prog_in, notProgVars>>

\* one iteration of the loop over the units: the report, then the unit
PgLoopUnit ==
    /\ pg.pc = "loop"
    /\ LET n == Len(prog_in.units)
           st == Report(pg, LoopPercent(pg.i, n))
       IN  pg' = IF prog_in.units[pg.i + 1] = "raise" THEN PgExcept(st)
                 ELSE [st EXCEPT !.results = @ + ResultsIn(prog_in.units, pg.i, pg.i + 1),
                                 !.i = pg.i + 1,
                                 !.pc = IF pg.i + 1 = n THEN "after" ELSE "loop"]
    /\ UNCHANGED <<prog_in, notProgVars>>

\* the only unit of the file, processed without a report
PgSingle ==
    /\ pg.pc = "single"
    /\ pg' = IF prog_in.units[1] = "raise" THEN PgExcept(pg)
             ELSE [pg EXCEPT !.results = ResultsIn(prog_in.units, 0, 1), !.pc = "after"]
    /\ UNCHANGED <<prog_in, notProgVars>>

\* the report after the units, and write_output_files if there is something
\* to write
PgWrite ==
    /\ pg.pc = "after"
    /\ LET st == Report(pg, 95)
       IN  pg' = IF ShouldWrite(prog_in.output_dir, pg.results)
                 THEN IF prog_in.fault = "write"
                      THEN PgExcept([st EXCEPT !.writer = "raised"])
                      ELSE [st EXCEPT !.writer = "returned", !.pc = "close"]
                 ELSE [st EXCEPT !.pc = "close"]
    /\ UNCHANGED <<prog_in, notProgVars>>

\* mm.close(), the last report and the return of the number of results
PgReturn ==
    /\ pg.pc = "close"
    /\ pg' = [Report(pg, 100) EXCEPT !.pc = "done", !.ret = ResultCount(pg.results)]
    /\ UNCHANGED <<prog_in, notProgVars>>

NextProg ==
    \/ PgOpen
    \/ PgMmap
    \/ PgSite
    \/ PgScanBlock
    \/ PgPair
    \/ PgBatch
    \/ PgLoopUnit
    \/ PgSingle
    \/ PgWrite
    \/ PgReturn

SpecProg == InitProg /\ [][NextProg]_vars

\* the positions of the report of 100 in the percents reported so far
Hundreds == {k \in 1..Len(pg.percents) : pg.percents[k] = 100}

\* C28: during one process_large_file call the percents passed to the progress
\* callback are non-decreasing and within 5..100; 100 is reported at most once,
\* as the last callback, only after the output writer has returned, and never
\* when the call ends through the exception handler.
C28_ProgressMonotone ==
    /\ \A k \in 1..Len(pg.percents) : pg.percents[k] >= 5 /\ pg.percents[k] <= 100
    /\ \A k \in 1..(Len(pg.percents) - 1) : pg.percents[k] <= pg.percents[k + 1]
    /\ Cardinality(Hundreds) <= 1
    /\ Hundreds \subseteq {Len(pg.percents)}
    /\ Hundreds # {} =>
           /\ pg.pc = "done"
           /\ (prog_in.output_dir /\ pg.results > 0) => pg.writer = "returned"
           /\ pg.writer \in {"returned", "not_called"}
    /\ pg.handler => Hundreds = {}

\* a call that processed three units in batches of the pool, wrote, and
\* reported 100 last
C28_Witness ==
    /\ pg.pc = "done"
    /\ ~pg.handler
    /\ pg.writer = "returned"
    /\ Len(prog_in.units) = 3
    /\ UnitWorkers(prog_in) = 2
    /\ Len(pg.percents) >= 10
    /\ pg.percents[Len(pg.percents)] = 100

---------------------------------------------------------------------------
(* The chunked scan of process_large_file over the bytes of the file       *)

(* The file is a sequence of bytes.  A byte below 0x80 is the one-character *)
(* string of its ASCII character; the other bytes of the model are the lead *)
(* byte and the continuation byte of a two-byte UTF-8 character and a byte  *)
(* that occurs in no UTF-8 text.                                            *)
LeadByte == "<C3>"

ContByte == "<A9>"

BadByte == "<FF>"

\* the character a decoded two-byte sequence stands for (it is not ASCII and
\* occurs in no marker)
DecodedChar == "~"

\* text.encode() of an ASCII text: one byte per character
Encode(text) == [i \in 1..Len(text) |-> SubSeq(text, i, i)]

\* bytes.decode('utf-8', errors='ignore'): a lead byte and its continuation
\* byte give one character, a byte that starts no valid sequence gives none
RECURSIVE Decode(_)
Decode(bs) ==
    IF Len(bs) = 0 THEN ""
    ELSE IF bs[1] = LeadByte
         THEN IF Len(bs) >= 2 /\ bs[2] = ContByte
              THEN DecodedChar \o Decode(SubSeq(bs, 3, Len(bs)))
              ELSE Decode(Tail(bs))
    ELSE IF bs[1] \in {ContByte, BadByte} THEN Decode(Tail(bs))
    ELSE bs[1] \o Decode(Tail(bs))

\* mm.seek(pos); mm.read(n)
MmReadBytes(content, pos, n) == SubSeq(content, pos + 1, Min2(pos + n, Len(content)))

\* the bytes of a sequence of pieces, one after the other
RECURSIVE Flatten(_)
Flatten(pieces) == IF Len(pieces) = 0 THEN <<>> ELSE Head(pieces) \o Flatten(Tail(pieces))

MaxPieces == 2

\* what a file holds besides its markers: text, a line break, a two-byte
\* character, a byte that is no UTF-8, and the halves of a two-byte character
Pieces ==
    {Encode("x"), Encode("\n"), <<LeadByte, ContByte>>, <<BadByte>>, <<LeadByte>>, <<ContByte>>}

\* the window sizes of the scan: the 16 MB of the source scaled down to files
\* of some tens of bytes
ByteBlockSizes == {24, 32, 64}

\* files of one unit: bytes, the start marker, bytes, the end marker and the
\* end of its line
ByteFiles ==
    {Flatten(before) \o Encode(unit_start) \o Flatten(between) \o Encode(unit_end \o " 1\n") :
        before \in SeqsUpTo(Pieces, MaxPieces), between \in SeqsUpTo(Pieces, 1)}

InitBytes ==
    /\ mm_bytes \in [content : ByteFiles, block_size : ByteBlockSizes]
    /\ fm = FmStart
    /\ IdleUnit
    /\ IdleClean
    /\ IdleSeg
    /\ IdleFile
    /\ IdleDir
    /\ IdleMmap
    /\ IdleNest
    /\ IdleWrite
    /\ IdleOut
    /\ IdleProg

\* find_markers: one window is read, decoded and searched for the two markers
FmScanBlock ==
    /\ fm.pc = "scan"
    /\ LET start_pos == fm.i * mm_bytes.block_size
           block_bytes == MmReadBytes(mm_bytes.content, start_pos, mm_bytes.block_size)
           block == Decode(block_bytes)
           last == fm.i + 1 = total_blocks(Len(mm_bytes.content), mm_bytes.block_size)
       IN  fm' = [fm EXCEPT !.start_positions = @ \o BlockStarts(block, 0, start_pos),
                            !.end_positions = @ \o BlockEnds(block, 0, start_pos),
                            !.i = fm.i + 1,
                            !.pc = IF last THEN "pair" ELSE "scan"]
    /\ UNCHANGED <<mm_bytes, notBytesVars>>

\* the positions are sorted and paired, the units sorted by their start
FmPair ==
    /\ fm.pc = "pair"
    /\ fm' = [fm EXCEPT !.unit_positions =
                            SortByStart(PairLarge(Sorted(fm.start_positions),
                                                  Sorted(fm.end_positions))),
                        !.pc = "units"]
    /\ UNCHANGED <<mm_bytes, notBytesVars>>

\* process_unit: mm.seek(start_pos); mm.read(end_pos - start_pos).decode(...)
FmReadUnit ==
    /\ fm.pc = "units"
    /\ Len(fm.unit_contents) < Len(fm.unit_positions)
    /\ LET pos == fm.unit_positions[Len(fm.unit_contents) + 1]
       IN  fm' = [fm EXCEPT !.unit_contents =
                      Append(@, Decode(MmReadBytes(mm_bytes.content, pos[1], pos[2] - pos[1])))]
    /\ UNCHANGED <<mm_bytes, notBytesVars>>

NextBytes == FmScanBlock \/ FmPair \/ FmReadUnit

SpecBytes == InitBytes /\ [][NextBytes]_vars

\* the bytes of the file from a position on are those of the start marker
MarkerAt(position) ==
    MmReadBytes(mm_bytes.content, position, Len(unit_start)) = Encode(unit_start)

\* C30: every start position the chunked scan produces is the byte offset of a
\* start marker in the file, and the text read for a unit from its start
\* position begins with 'Start_of_Test -----', also when multi-byte or
\* undecodable bytes stand before the marker in its window.
C30_PositionsAreByteOffsets ==
    /\ \A k \in 1..Len(fm.start_positions) : MarkerAt(fm.start_positions[k])
    /\ \A k \in 1..Len(fm.unit_contents) : StartsWith(fm.unit_contents[k], unit_start)

---------------------------------------------------------------------------
(* The unit ids handed to process_test_unit                                *)

\* unit_id = f"TD{i+1}" for the i-th (from 0) unit of the list
unit_id(i) == "TD" \o NatStr(i + 1)

\* the (unit id, start position) pairs of the calls of process_test_unit for a
\* list of units
IdAssignment(units) == {<<unit_id(i - 1), units[i][1]>> : i \in 1..Len(units)}

\* the units come in ascending order of their start position, none twice
AscendingStarts(units) == \A i, j \in 1..Len(units) : i < j => units[i][1] < units[j][1]

\* C21: the unit ids handed to process_test_unit for one file are TD1, ..., TDk
\* without gaps or repeats, TDn being the unit with the n-th smallest start
\* position over the whole file; in the large path the assignment is the same
\* for every window size (it is the one of a scan of the file in one window).
C21_UnitIdsByStart ==
    /\ unit_pairs.done => AscendingStarts(unit_pairs.units)
    /\ unit_positions.done =>
        /\ AscendingStarts(unit_positions.units)
        /\ IdAssignment(unit_positions.units) = IdAssignment(LargeUnitPositions(file_content))

---------------------------------------------------------------------------
(* The site id taken from the header                                       *)

\* the lines (from 1) of the file inside the line window [100, 250] (from 0)
\* that start with 'SITE:' followed by digits
WindowSiteLines ==
    LET lines == SplitNewline(log.text)
    IN  {k \in 101..Min2(251, Len(lines)) :
            /\ StartsWith(lines[k], "SITE:")
            /\ LeadingDigits(SliceFrom(lines[k], 5)) # ""}

\* the digits of the first such line, without their leading zeros
WindowSiteId ==
    LStripZeros(LeadingDigits(SliceFrom(SplitNewline(log.text)[MinOf(WindowSiteLines)], 5)))

\* the site id of a file without a SITE line: that of its path
NoHeaderSiteId == IF log.large THEN large_site_id("", log.name) ELSE find_site_id("")

\* the site id of the file has been taken and its units are being processed
SiteTaken == wr.pc \in {"units", "loop"}

\* C22: the site id taken from the header is the digit string, without its
\* leading zeros, of the first line in the line window [100, 250] that starts
\* with 'SITE:' followed by digits; a 'SITE:' line outside the window or not
\* followed by digits is never used (the id is then the one of a file without
\* SITE line), and the small and the large path resolve the same id from the
\* same header.
C22_SiteIdFromWindow ==
    SiteTaken =>
        /\ WindowSiteLines # {} => wr.site_id = WindowSiteId
        /\ WindowSiteLines = {} => wr.site_id = NoHeaderSiteId

============================================================================
